---- MODULE Spec2Model ----
(***************************************************************************)
(* State-machine model of the WhatsApp interview bot (server.js): the      *)
(* message classifier, the conversational delegate, the POST /webhook      *)
(* session state machine and the scoring pipeline.                         *)
(*                                                                         *)
(* Strings are modelled by a finite vocabulary of concrete messages.  The  *)
(* outcome of each regular-expression test of the source on each message   *)
(* of the vocabulary is tabulated (the *Matches sets); everything the      *)
(* source computes from those tests is computed here the same way.         *)
(***************************************************************************)
EXTENDS Integers, Sequences, FiniteSets, TLC

\* ----------------------------------------------------------------- bounds
\* Largest number of questions of the job under interview.
MaxQuestions == 2
\* Largest number of Session documents ever created.
MaxSessions == 1
\* Largest number of Session documents of the runs with several candidates.
MaxPairSessions == 3
\* Largest number of entries of a stored conversationHistory.
MaxTranscript == 7
\* Largest number of POST /webhook requests in flight at once.
MaxInFlight == 2

\* ------------------------------------------------------ program constants
\* const MAX_FOLLOW_UPS = Number(process.env.MAX_FOLLOW_UPS || 2)
MAX_FOLLOW_UPS == 2

\* null / undefined of the source.
Null == "null"

\* ------------------------------------------------------------- vocabulary
\* Inbound message bodies, after the handler's trim().
Messages ==
  { "", "ok", "go ahead", "ready", "explain", "why?",
    "that's all", "I built REST APIs", "5 years of Node" }

\* Twilio delivery ids.  A request may also carry no MessageSid (Null): the
\* handler then skips its duplicate check, as it does for an id it has not
\* recorded.
Sids == {"SM1"}

\* The sender (req.body.From); "" is a request without one.
Phones == {"whatsapp:+201"}

\* Question texts of a job, by position.
QuestionTexts == <<"Q1", "Q2", "Q3", "Q4">>

\* ------------------------------------------------------------- classifier
\* Messages on which arReady.test(m) || enReady.test(m) holds.
ReadyMatches == {"go ahead", "ready"}

isStartMessage(message) == message \in ReadyMatches

\* Messages matched by the clarification pattern.
ClarificationMatches == {"explain"}

isClarificationNever(message) == FALSE

isClarification(message) == message \in ClarificationMatches

\* m.endsWith('?')
EndsWithQuestionMark == {"why?"}

\* Messages matched by one of the two interrogative-word patterns.
InterrogativeMatches == {"why?"}

isUserQuestion(message) ==
  IF message \in EndsWithQuestionMark THEN TRUE
  ELSE message \in InterrogativeMatches

\* Messages matched by one of the anchored confirmation patterns.
ConfirmationMatches == {"ok", "go ahead"}

isConfirmationOnly(message) ==
  IF message = "" THEN FALSE
  ELSE message \in ConfirmationMatches

\* Messages matched by one of the meta patterns.
MetaMatches == {"that's all"}

isMetaNonAnswer(message) ==
  IF message = "" THEN FALSE
  ELSE message \in MetaMatches

isProbablyAnswerOfQuestions(message) ==
  IF message = "" THEN FALSE
  ELSE IF isClarification(message)
          \/ isStartMessage(message) \/ isMetaNonAnswer(message) THEN FALSE
  ELSE TRUE

isProbablyAnswer(message) ==
  IF message = "" THEN FALSE
  ELSE IF isClarification(message) \/ isUserQuestion(message)
          \/ isStartMessage(message) \/ isMetaNonAnswer(message) THEN FALSE
  ELSE TRUE

\* /\s/.test(m)
WhitespaceMatches ==
  {"go ahead", "that's all", "I built REST APIs", "5 years of Node"}

\* Messages holding one of the listed punctuation marks.
PunctuationMatches == {}

\* /\d/.test(m)
DigitMatches == {"5 years of Node"}

isSubstantiveAnswer(message) ==
  IF message = "" THEN FALSE
  ELSE IF isConfirmationOnly(message) THEN FALSE
  ELSE IF isClarification(message) \/ isUserQuestion(message) THEN FALSE
  ELSE IF isMetaNonAnswer(message) THEN FALSE
  ELSE IF Len(message) >= 6 THEN TRUE
  ELSE IF message \in WhitespaceMatches THEN TRUE
  ELSE IF message \in PunctuationMatches THEN TRUE
  ELSE message \in DigitMatches

isValidAnswerContent(message) ==
  IF message = "" THEN FALSE
  ELSE IF isConfirmationOnly(message) THEN FALSE
  ELSE IF isClarification(message) \/ isUserQuestion(message) THEN FALSE
  ELSE IF isMetaNonAnswer(message) THEN FALSE
  ELSE isSubstantiveAnswer(message)

\* --------------------------------------------------- conversational delegate
\* parsed.assistant_reply of the upstream payload (Null: the field is missing).
AssistantReplies == {Null, "Thanks.", "anything else?"}

\* parsed.follow_up_question of the upstream payload.
FollowUpQuestions == {Null, "Which framework?"}

\* parsed.action of the upstream payload; "escalate" is a tag the handler
\* does not know.
UpstreamActions == {Null, "answer", "clarify", "ask_again", "guide", "escalate"}

\* What the chat-completions request can come back with: a failure (missing
\* key, network error, payload that does not parse) or a parsed object.
DelegateFailure ==
  [ok |-> FALSE, assistant_reply |-> Null, action |-> Null,
   follow_up_question |-> Null]

Upstream(reply, action, followUp) ==
  [ok |-> TRUE, assistant_reply |-> reply, action |-> action,
   follow_up_question |-> followUp]

DelegateOutcomes ==
  {DelegateFailure} \cup
  {Upstream("Thanks.", a, "Which framework?") : a \in UpstreamActions} \cup
  {Upstream(Null, a, Null) : a \in {"answer", "clarify"}} \cup
  {Upstream("anything else?", "guide", Null)}

\* String(x || '')
StringOrEmpty(x) == IF x = Null THEN "" ELSE x

converseOnAnswerClarifyingOnFailure(upstream) ==
  IF ~upstream.ok
  THEN [action |-> "clarify", assistant_reply |-> "", follow_up_question |-> ""]
  ELSE [assistant_reply |-> StringOrEmpty(upstream.assistant_reply),
        action |-> IF upstream.action = Null THEN "ask_again" ELSE upstream.action,
        follow_up_question |-> StringOrEmpty(upstream.follow_up_question)]

\* try { ... return { assistant_reply, normalized_answer, action, ... } }
\* catch (e) { return { action: 'ask_again', assistant_reply: '', ... } }
converseOnAnswer(upstream) ==
  IF ~upstream.ok
  THEN [action |-> "ask_again", assistant_reply |-> "", follow_up_question |-> ""]
  ELSE [assistant_reply |-> StringOrEmpty(upstream.assistant_reply),
        action |-> IF upstream.action = Null THEN "ask_again" ELSE upstream.action,
        follow_up_question |-> StringOrEmpty(upstream.follow_up_question)]

\* Replies that consist of a banned phrase only: nothing is left of them.
BadPhraseOnly == {"anything else?"}

sanitizeAssistantReply(text) == IF text \in BadPhraseOnly THEN "" ELSE text

\* ------------------------------------------------------------ scoring
\* An upstream score, as JSON.parse leaves it: absent (or null), a number (in
\* tenths, so that rounding is visible), a string that spells a number, the
\* boolean true, a value Number() turns into NaN, or a number literal that
\* overflows to +-Infinity.
Num(t) == [kind |-> "num", tenths |-> t]
NumericString(t) == [kind |-> "numstr", tenths |-> t]
ScoreTrue == [kind |-> "true", tenths |-> 0]
ScoreAbsent == [kind |-> "absent", tenths |-> 0]
ScoreNaN == [kind |-> "nan", tenths |-> 0]
ScorePosInf == [kind |-> "inf", tenths |-> 0]
ScoreNegInf == [kind |-> "neginf", tenths |-> 0]

\* Number(parsed.score ?? 0)
ToNumber(raw) ==
  CASE raw.kind = "absent" -> Num(0)
    [] raw.kind = "numstr" -> Num(raw.tenths)
    [] raw.kind = "true" -> Num(10)
    [] OTHER -> raw

\* Math.round on tenths: to the nearest integer, halves towards +Infinity.
MathRound(t) == (t + 5) \div 10

ClampScoreMissingUpper(raw) ==
  LET n == ToNumber(raw)
  IN  IF n.kind # "num" THEN 0
      ELSE IF MathRound(n.tenths) < 0 THEN 0 ELSE MathRound(n.tenths)

\* let score = Math.round(Number(parsed.score ?? 0));
\* if (!Number.isFinite(score)) score = 0;
\* if (score < 0) score = 0; if (score > 100) score = 100;
ClampScore(raw) ==
  LET n == ToNumber(raw)
  IN  IF n.kind # "num" THEN 0
      ELSE IF MathRound(n.tenths) < 0 THEN 0
      ELSE IF MathRound(n.tenths) > 100 THEN 100
      ELSE MathRound(n.tenths)

DecisionOfScore(score) ==
  IF score >= 85 THEN "strong"
  ELSE IF score >= 75 THEN "recommended"
  ELSE IF score >= 60 THEN "review"
  ELSE "weak"

\* (answers || [])[i]?.answer || '' for the 0-based index i.
AnswerAt(answers, i) == IF i + 1 <= Len(answers) THEN answers[i + 1].answer ELSE ""

\* The qa list of analyzeCandidate: one answer per question, aligned by index,
\* an answer that is not valid answer content replaced by ''.
AlignedAnswers(questions, answers) ==
  [i \in 1..Len(questions) |->
     IF isValidAnswerContent(AnswerAt(answers, i - 1))
     THEN AnswerAt(answers, i - 1) ELSE ""]

\* What the evaluation request can come back with.  ok: the try block of
\* analyzeCandidate ran to its end.  It does not when the key is missing, the
\* request fails, or the payload holds {...} that is not JSON (payload "none");
\* it does for a payload that is a JSON object (payload "json") and for one
\* that holds no {...} at all, which is read as {} (payload "text").
EvalFailure ==
  [ok |-> FALSE, payload |-> "none", score |-> ScoreAbsent, decision |-> Null,
   strengths |-> <<>>, weaknesses |-> <<>>, summary |-> ""]

EvalResult(score, decision) ==
  [ok |-> TRUE, payload |-> "json", score |-> score, decision |-> decision,
   strengths |-> <<"clear">>, weaknesses |-> <<"brief">>, summary |-> "Solid."]

EvalUnparseable ==
  [ok |-> TRUE, payload |-> "text", score |-> ScoreAbsent, decision |-> Null,
   strengths |-> <<>>, weaknesses |-> <<>>, summary |-> ""]

FailedAnalysisByThresholds ==
  [score |-> 0, strengths |-> <<>>, weaknesses |-> <<>>, decision |-> "weak",
   summary |-> "AI analysis failed; manual review required."]

FailedAnalysis ==
  [score |-> 0, strengths |-> <<>>, weaknesses |-> <<>>, decision |-> "review",
   summary |-> "AI analysis failed; manual review required."]

AnalyzeTrustingUpstreamLabel(questions, answers, upstream) ==
  IF ~upstream.ok THEN FailedAnalysis
  ELSE [score |-> ClampScore(upstream.score),
        strengths |-> upstream.strengths, weaknesses |-> upstream.weaknesses,
        decision |-> IF upstream.decision # Null THEN upstream.decision
                     ELSE DecisionOfScore(ClampScore(upstream.score)),
        summary |-> upstream.summary]

AnalyzeWithoutDowngrade(questions, answers, upstream) ==
  IF ~upstream.ok THEN FailedAnalysis
  ELSE [score |-> ClampScore(upstream.score),
        strengths |-> upstream.strengths, weaknesses |-> upstream.weaknesses,
        decision |-> DecisionOfScore(ClampScore(upstream.score)),
        summary |-> upstream.summary]

analyzeCandidate(questions, answers, upstream) ==
  IF ~upstream.ok THEN FailedAnalysis
  ELSE
    LET qa == AlignedAnswers(questions, answers)
        score == ClampScore(upstream.score)
        decision == DecisionOfScore(score)
        anyMissing == \E i \in 1..Len(qa) : qa[i] = ""
    IN  [score |-> score,
         strengths |-> upstream.strengths, weaknesses |-> upstream.weaknesses,
         decision |-> IF anyMissing /\ decision \in {"strong", "recommended"}
                      THEN "review" ELSE decision,
         summary |-> upstream.summary]

\* The document finalizeAndNotify hands to Submission.create.
\* (session is not a stored field: it records which Session document the
\* submission was made from.)
SubmissionDoc(id, sessionDoc, analysis) ==
  [session |-> id,
   applicantPhone |-> sessionDoc.applicantPhone,
   answers |-> sessionDoc.answers,
   aiScore |-> analysis.score,
   aiStrengths |-> analysis.strengths,
   aiWeaknesses |-> analysis.weaknesses,
   aiDecision |-> analysis.decision,
   aiSummary |-> analysis.summary]

\* ------------------------------------------------------------------ state
VARIABLES
  dbReady,      \* the MongoDB connection is up
  job,          \* the job the webhook resolves: [questions |-> <<...>>]
  sessions,     \* the Session collection, in creation order
  submissions,  \* the Submission collection, in creation order
  trace,        \* what the last request did, in order: sends, saves, calls
  response,     \* the HTTP response of the last request
  turn,         \* the last request: its inputs and the session it met
  delivered,    \* history: the (session, MessageSid) pairs delivered so far
  writes,       \* the Session documents the last request stored, in order
  json,         \* the JSON body of the last response (NoJson: it had none)
  pending       \* the requests that have read their session and not yet saved

vars == <<dbReady, job, sessions, submissions, trace, response, turn, delivered,
          writes, json, pending>>

NumQuestions == Len(job.questions)

\* job.questions[i] for the 0-based index i.
QuestionAt(i) == job.questions[i + 1]

\* ---------------------------------------------------------------- messages
\* t(lang, 'whatsapp.question_prefix', {current: i+1, total, question}).
QuestionPrompts ==
  <<"Question 1: Q1", "Question 2: Q2", "Question 3: Q3", "Question 4: Q4">>

QuestionPrompt(i) == QuestionPrompts[i + 1]

WelcomeMessage == "Hi, I am Azzam. If you are ready, let me know."
FinalMessage == "Thank you. Your answers were received."
NoQuestionsMessage == "No questions are configured."

\* [a, b].filter(Boolean).join('\n'): the non-empty lines, in order.
JoinNonEmpty(a, b) ==
  (IF a = "" THEN <<>> ELSE <<a>>) \o (IF b = "" THEN <<>> ELSE <<b>>)

\* One step of a request, as the trace records it.
Ev(kind, body) == [kind |-> kind, body |-> body]

\* sendWhatsApp(to, body): nothing is sent for an empty body.
sendWhatsApp(body) == IF body = <<>> THEN <<>> ELSE <<Ev("send", body)>>

\* if (dbReady) await sessionDoc.save()
SaveEvent == IF dbReady THEN <<Ev("save", <<>>)>> ELSE <<>>

\* String(waFrom || '').replace(/^whatsapp:/i, '')
normalizePhone(waFrom) ==
  CASE waFrom = "whatsapp:+201" -> "+201"
    [] waFrom = "whatsapp:+202" -> "+202"
    [] OTHER -> waFrom

\* --------------------------------------------------------------- sessions
NewSessionAtOne(from) ==
  [applicantPhone |-> from, currentIndex |-> 1, answers |-> <<>>,
   processedMessageSids |-> <<>>, completedAt |-> Null,
   interviewStarted |-> TRUE, followUpCounts |-> <<>>, needsReview |-> <<>>,
   conversationHistory |-> <<>>]

\* Session.create({ applicantPhone: from, jobId, currentIndex: 0, answers: [],
\* processedMessageSids: [], interviewStarted: true })
NewSession(from) ==
  [applicantPhone |-> from, currentIndex |-> 0, answers |-> <<>>,
   processedMessageSids |-> <<>>, completedAt |-> Null,
   interviewStarted |-> TRUE, followUpCounts |-> <<>>, needsReview |-> <<>>,
   conversationHistory |-> <<>>]

SeqRange(s) == {s[i] : i \in 1..Len(s)}

\* Session.findOne({applicantPhone, jobId, completedAt: null}): the id
\* (position) of the first such document, 0 when there is none.
OpenSessionIds(from) ==
  {i \in 1..Len(sessions) :
     sessions[i].applicantPhone = from /\ sessions[i].completedAt = Null}

FindOpenSessionNever(from) == 0

FindOpenSession(from) ==
  IF ~dbReady \/ OpenSessionIds(from) = {} THEN 0
  ELSE CHOOSE i \in OpenSessionIds(from) : \A j \in OpenSessionIds(from) : i <= j

EmptySlot == [question |-> "", answer |-> ""]

LedgerWriteUnpadded(answers, idx, q, ans) ==
  Append(answers, [question |-> q, answer |-> ans])

LedgerWritePaddedToCount(answers, idx, q, ans) ==
  answers \o [i \in 1..(Len(job.questions) - Len(answers)) |->
                [question |-> "", answer |-> ""]]
          \o <<[question |-> q, answer |-> ans]>>

LedgerWriteOverwriting(answers, idx, q, ans) ==
  [i \in 1..idx |-> EmptySlot] \o <<[question |-> q, answer |-> ans]>>

\* The ledger write of an accepted answer: push at idx, padding the slots
\* below it; nothing when the ledger is already longer than idx.
LedgerWrite(answers, idx, q, ans) ==
  IF Len(answers) = idx THEN Append(answers, [question |-> q, answer |-> ans])
  ELSE IF Len(answers) < idx
  THEN answers \o [i \in 1..(idx - Len(answers)) |-> EmptySlot]
               \o <<[question |-> q, answer |-> ans]>>
  ELSE answers

\* arr[idx] || 0 for the 0-based index idx (a hole reads as 0).
CountAt(arr, idx) == IF idx + 1 <= Len(arr) THEN arr[idx + 1] ELSE 0

\* arr[idx] = v for the 0-based index idx: the array grows to idx + 1, the
\* slots it skips are holes.
SetAt(arr, idx, v) ==
  [i \in 1..(IF Len(arr) > idx + 1 THEN Len(arr) ELSE idx + 1) |->
     IF i = idx + 1 THEN v ELSE CountAt(arr, i - 1)]

ReachedLimitOneLate(count) == count > MAX_FOLLOW_UPS

\* const reachedLimit = sessionDoc.followUpCounts[idx] >= MAX_FOLLOW_UPS
ReachedLimit(count) == count >= MAX_FOLLOW_UPS

CountFollowUpForgets(doc, idx) == doc

CountFollowUpRestarting(doc, idx) ==
  LET count == CountAt(doc.followUpCounts, idx) + 1
      counted == [doc EXCEPT !.followUpCounts = SetAt(doc.followUpCounts, idx, count)]
  IN  IF ReachedLimit(count)
      THEN [counted EXCEPT
              !.needsReview = IF idx \in SeqRange(doc.needsReview)
                              THEN doc.needsReview
                              ELSE Append(doc.needsReview, idx),
              !.currentIndex = 0]
      ELSE counted

CountFollowUpUnflagged(doc, idx) ==
  LET count == CountAt(doc.followUpCounts, idx) + 1
      counted == [doc EXCEPT !.followUpCounts = SetAt(doc.followUpCounts, idx, count)]
  IN  IF ReachedLimit(count)
      THEN [counted EXCEPT !.currentIndex = idx + 1]
      ELSE counted

CountFollowUpAtZero(doc, idx) ==
  LET count == CountAt(doc.followUpCounts, 0) + 1
      counted == [doc EXCEPT !.followUpCounts = SetAt(doc.followUpCounts, 0, count)]
  IN  IF ReachedLimit(count)
      THEN [counted EXCEPT
              !.needsReview = IF idx \in SeqRange(doc.needsReview)
                              THEN doc.needsReview
                              ELSE Append(doc.needsReview, idx),
              !.currentIndex = idx + 1]
      ELSE counted

CountFollowUpFlaggingNext(doc, idx) ==
  LET count == CountAt(doc.followUpCounts, idx) + 1
      counted == [doc EXCEPT !.followUpCounts = SetAt(doc.followUpCounts, idx, count)]
  IN  IF ReachedLimit(count)
      THEN [counted EXCEPT
              !.needsReview = IF idx + 1 \in SeqRange(doc.needsReview)
                              THEN doc.needsReview
                              ELSE Append(doc.needsReview, idx + 1),
              !.currentIndex = idx + 1]
      ELSE counted

\* followUpCounts[idx] += 1, and on the ceiling: flag idx, advance the index.
CountFollowUp(doc, idx) ==
  LET count == CountAt(doc.followUpCounts, idx) + 1
      counted == [doc EXCEPT !.followUpCounts = SetAt(doc.followUpCounts, idx, count)]
  IN  IF ReachedLimit(count)
      THEN [counted EXCEPT
              !.needsReview = IF idx \in SeqRange(doc.needsReview)
                              THEN doc.needsReview
                              ELSE Append(doc.needsReview, idx),
              !.currentIndex = idx + 1]
      ELSE counted

\* res.send(text): a response without a JSON body.
NoJson == [json |-> FALSE, ok |-> FALSE, reply |-> <<>>, done |-> FALSE,
           analysis |-> <<>>]

\* --------------------------------------------------------- POST /webhook
\* What one request comes to: the session document as the handler leaves it
\* in memory, whether and how it reaches the collection (persist: "create",
\* "save" or "none"), the steps taken, the response ("none": the handler
\* threw before responding), the submissions created and the delegate's
\* action (Null when the delegate was not called).
Result(doc, persist, steps, resp, subs, action) ==
  [doc |-> doc, persist |-> persist, trace |-> steps, response |-> resp,
   subs |-> subs, action |-> action]

Persisted == IF dbReady THEN "save" ELSE "none"

DelegateEvent == <<Ev("delegate", <<>>)>>

\* finalizeAndNotify: the evaluation, then Submission.create, which throws
\* when the store rejects the document.
finalizeAndNotify(id, sessionDoc, evalUpstream, createOk) ==
  LET analysis == analyzeCandidate(job.questions, sessionDoc.answers, evalUpstream)
  IN  [threw |-> dbReady /\ ~createOk,
       subs |-> IF dbReady /\ createOk
                THEN <<SubmissionDoc(id, sessionDoc, analysis)>> ELSE <<>>,
       trace |-> <<Ev("evaluate", <<>>)>> \o
                 (IF dbReady /\ createOk THEN <<Ev("submit", <<>>)>> ELSE <<>>)]

IsLastQuestionOneEarly(idx) == idx >= NumQuestions - 2

\* const isLast = idx === (job.questions || []).length - 1;
IsLastQuestion(idx) == idx = NumQuestions - 1

AcceptAnswerWithoutPrompt(id, doc, idx, message, reply, evalUpstream, createOk, action) ==
  LET written == [doc EXCEPT
                    !.answers = LedgerWrite(doc.answers, idx, QuestionAt(idx), message),
                    !.currentIndex = idx + 1]
      closed == [written EXCEPT !.completedAt = "date"]
      fin == finalizeAndNotify(id, closed, evalUpstream, createOk)
  IN  IF IsLastQuestion(idx)
      THEN Result(closed, Persisted,
                  DelegateEvent \o SaveEvent \o fin.trace
                    \o sendWhatsApp(JoinNonEmpty(reply, FinalMessage)),
                  "OK", fin.subs, action)
      ELSE Result(written, Persisted,
                  DelegateEvent \o SaveEvent \o sendWhatsApp(JoinNonEmpty(reply, "")),
                  "OK", <<>>, action)

\* An accepted answer (the answer branch and the ask_again/guide override):
\* ledger write, index advance, and either the closing of the session or the
\* next question.
AcceptAnswer(id, doc, idx, message, reply, evalUpstream, createOk, action) ==
  LET written == [doc EXCEPT
                    !.answers = LedgerWrite(doc.answers, idx, QuestionAt(idx), message),
                    !.currentIndex = idx + 1]
      isLast == IsLastQuestion(idx)
      closed == [written EXCEPT !.completedAt = "date"]
      fin == finalizeAndNotify(id, closed, evalUpstream, createOk)
  IN  IF isLast
      THEN Result(closed, Persisted,
                  DelegateEvent \o SaveEvent \o fin.trace
                    \o sendWhatsApp(JoinNonEmpty(reply, FinalMessage)),
                  "OK", fin.subs, action)
      ELSE Result(written, Persisted,
                  DelegateEvent \o SaveEvent \o sendWhatsApp(JoinNonEmpty(reply, ""))
                    \o (IF written.currentIndex < NumQuestions
                        THEN sendWhatsApp(<<QuestionPrompt(written.currentIndex)>>)
                        ELSE <<>>),
                  "OK", <<>>, action)

ConfirmationTurnReprompting(doc, idx) ==
  Result(doc, Persisted, SaveEvent \o sendWhatsApp(<<QuestionPrompt(idx)>>),
         "OK", <<>>, Null)

\* if (isConfirmationOnly(message)) { if (dbReady) await sessionDoc.save();
\* return res.send('OK'); }
ConfirmationTurn(doc, idx) == Result(doc, Persisted, SaveEvent, "OK", <<>>, Null)

IsDuplicateNever(stored, messageSid) == FALSE

\* if (dbReady && messageSid) { if (processedMessageSids.includes(messageSid)) ...
IsDuplicate(stored, messageSid) ==
  dbReady /\ messageSid # Null
    /\ messageSid \in SeqRange(stored.processedMessageSids)

DefaultPathTrustingDelegate(action, message) ==
  IF action = "answer" THEN "accept"
  ELSE IF action \in {"ask_again", "guide"} /\ isValidAnswerContent(message)
  THEN "accept"
  ELSE "follow_up"

DefaultPathWithoutOverride(action, message) ==
  IF action = "answer"
  THEN IF ~isValidAnswerContent(message) THEN "reask" ELSE "accept"
  ELSE "follow_up"

DefaultPathCountingInvalid(action, message) ==
  IF action = "answer"
  THEN IF ~isValidAnswerContent(message) THEN "follow_up" ELSE "accept"
  ELSE IF action \in {"ask_again", "guide"} /\ isValidAnswerContent(message)
  THEN "accept"
  ELSE "follow_up"

\* The default path's branch on the delegate's action: "reask" (tagged an
\* answer, not valid answer content), "accept" (a valid answer, or the
\* ask_again/guide override of one), "follow_up" (anything else).
DefaultPath(action, message) ==
  IF action = "answer"
  THEN IF ~isValidAnswerContent(message) THEN "reask" ELSE "accept"
  ELSE IF action \in {"ask_again", "guide"} /\ isValidAnswerContent(message)
  THEN "accept"
  ELSE "follow_up"

\* The turn of a message that met the open session with the given id.
InSession(id, message, messageSid, upstream, evalUpstream, createOk) ==
  LET stored == sessions[id]
      checksSid == dbReady /\ messageSid # Null
      doc == IF checksSid
             THEN [stored EXCEPT !.processedMessageSids = Append(@, messageSid)]
             ELSE stored
      idx == doc.currentIndex
      guidance == converseOnAnswer(upstream)
      action == guidance.action
      reply == sanitizeAssistantReply(guidance.assistant_reply)
      fu == IF guidance.follow_up_question # ""
            THEN sanitizeAssistantReply(guidance.follow_up_question) ELSE ""
      closed == [doc EXCEPT !.completedAt = "date"]
      fin == finalizeAndNotify(id, closed, evalUpstream, createOk)
  IN
  IF IsDuplicate(stored, messageSid)
  THEN Result(stored, "none", <<>>, "OK", <<>>, Null)
  ELSE IF idx < NumQuestions THEN
    IF ~doc.interviewStarted /\ isStartMessage(message)
    THEN Result([doc EXCEPT !.interviewStarted = TRUE], Persisted,
                SaveEvent \o sendWhatsApp(<<QuestionPrompt(idx)>>), "OK", <<>>, Null)
    ELSE IF isConfirmationOnly(message)
    THEN ConfirmationTurn(doc, idx)
    ELSE IF isClarification(message)
    THEN Result(doc, "none",
                DelegateEvent \o sendWhatsApp(JoinNonEmpty(reply, ""))
                  \o sendWhatsApp(<<QuestionPrompt(idx)>>),
                "OK", <<>>, action)
    ELSE IF isUserQuestion(message) /\ ~isProbablyAnswer(message)
    THEN Result(CountFollowUp(doc, idx), Persisted,
                DelegateEvent \o sendWhatsApp(JoinNonEmpty(reply, fu)) \o SaveEvent,
                "OK", <<>>, action)
    ELSE IF DefaultPath(action, message) = "reask"
    THEN Result(doc, "none",
                DelegateEvent \o sendWhatsApp(JoinNonEmpty(reply, ""))
                  \o sendWhatsApp(<<QuestionPrompt(idx)>>),
                "OK", <<>>, action)
    ELSE IF DefaultPath(action, message) = "accept"
    THEN AcceptAnswer(id, doc, idx, message, reply, evalUpstream, createOk, action)
    ELSE Result(CountFollowUp(doc, idx), Persisted,
                DelegateEvent \o sendWhatsApp(JoinNonEmpty(reply, fu))
                  \o (IF action = "clarify"
                      THEN sendWhatsApp(<<QuestionPrompt(idx)>>) ELSE <<>>)
                  \o SaveEvent,
                "OK", <<>>, action)
  ELSE IF doc.currentIndex < NumQuestions
  THEN Result(doc, "none", sendWhatsApp(<<QuestionPrompt(doc.currentIndex)>>),
              "OK", <<>>, Null)
  ELSE IF doc.completedAt = Null THEN
    IF fin.threw
    THEN Result(closed, Persisted, SaveEvent \o fin.trace, "none", fin.subs, Null)
    ELSE Result(closed, Persisted,
                SaveEvent \o fin.trace \o sendWhatsApp(<<FinalMessage>>),
                "OK", fin.subs, Null)
  ELSE Result(doc, "none", <<>>, "OK", <<>>, Null)

NoSessionAlwaysCreating(from, message) ==
  Result(NewSession(from), IF dbReady THEN "create" ELSE "none",
         (IF dbReady THEN <<Ev("create", <<>>)>> ELSE <<>>)
           \o (IF NumQuestions > 0
               THEN sendWhatsApp(<<QuestionPrompt(0)>>)
               ELSE sendWhatsApp(<<NoQuestionsMessage>>)),
         "OK", <<>>, Null)

\* The turn of a message that met no open session.
NoSession(from, message) ==
  IF ~isStartMessage(message)
  THEN Result(NewSession(from), "none", sendWhatsApp(<<WelcomeMessage>>),
              "OK", <<>>, Null)
  ELSE Result(NewSession(from), IF dbReady THEN "create" ELSE "none",
              (IF dbReady THEN <<Ev("create", <<>>)>> ELSE <<>>)
                \o (IF NumQuestions > 0
                    THEN sendWhatsApp(<<QuestionPrompt(0)>>)
                    ELSE sendWhatsApp(<<NoQuestionsMessage>>)),
              "OK", <<>>, Null)

WebhookResultWithoutFromCheck(fromWa, message, messageSid, upstream, evalUpstream, createOk) ==
  LET from == normalizePhone(fromWa)
      id == FindOpenSession(from)
  IN  IF id = 0 THEN NoSession(from, message)
      ELSE InSession(id, message, messageSid, upstream, evalUpstream, createOk)

\* const fromWa = req.body.From; if (!fromWa) return res.status(400)...; then
\* the open-session lookup and one of the two turns.
WebhookResult(fromWa, message, messageSid, upstream, evalUpstream, createOk) ==
  IF fromWa = ""
  THEN Result(NewSession(""), "none", <<>>, "400", <<>>, Null)
  ELSE LET from == normalizePhone(fromWa)
           id == FindOpenSession(from)
       IN  IF id = 0 THEN NoSession(from, message)
           ELSE InSession(id, message, messageSid, upstream, evalUpstream, createOk)

\* ---------------------------------------------------------------- actions
\* What the evaluation request comes back with in the session runs.
TurnEvalOutcomes ==
  { EvalFailure,
    EvalUnparseable,
    EvalResult(Num(900), "reject"),
    EvalResult(Num(800), "reject"),
    EvalResult(Num(400), "accept") }

HasEvent(steps, kind) == \E i \in 1..Len(steps) : steps[i].kind = kind

IdleTurn ==
  [from |-> "", msg |-> "", sid |-> Null, session |-> 0,
   action |-> Null, eval |-> EvalFailure, createOk |-> TRUE,
   redelivery |-> FALSE]

Init ==
  /\ dbReady = FALSE
  /\ job \in {[questions |-> SubSeq(QuestionTexts, 1, n)] : n \in 0..MaxQuestions}
  /\ sessions = <<>>
  /\ submissions = <<>>
  /\ trace = <<>>
  /\ response = Null
  /\ turn = IdleTurn
  /\ delivered = {}
  /\ writes = <<>>
  /\ json = NoJson
  /\ pending = <<>>

\* mongoose.connect(...).then(() => { dbReady = true })
DbConnect ==
  /\ ~dbReady
  /\ dbReady' = TRUE
  /\ trace' = <<>>
  /\ response' = Null
  /\ turn' = IdleTurn
  /\ writes' = <<>>
  /\ json' = NoJson
  /\ UNCHANGED <<pending, job, sessions, submissions, delivered>>

\* The state a request leaves behind, r being what the request came to; cap
\* is the largest number of Session documents the run may create.
HandledWithin(cap, fromWa, message, messageSid, evalUpstream, createOk, r) ==
  LET found == IF fromWa = "" THEN 0 ELSE FindOpenSession(normalizePhone(fromWa))
      target == IF r.persist = "create" THEN Len(sessions) + 1 ELSE found
  IN  /\ r.persist = "create" => Len(sessions) < cap
      /\ sessions' = CASE r.persist = "create" -> Append(sessions, r.doc)
                       [] r.persist = "save" -> [sessions EXCEPT ![found] = r.doc]
                       [] OTHER -> sessions
      /\ submissions' = submissions \o r.subs
      /\ trace' = r.trace
      /\ response' = r.response
      /\ turn' = [from |-> fromWa, msg |-> message, sid |-> messageSid,
                  session |-> target, action |-> r.action,
                  eval |-> evalUpstream, createOk |-> createOk,
                  redelivery |-> <<target, messageSid>> \in delivered]
      /\ delivered' = IF target # 0 /\ messageSid # Null
                      THEN delivered \cup {<<target, messageSid>>}
                      ELSE delivered
      /\ writes' = IF r.persist \in {"create", "save"} THEN <<r.doc>> ELSE <<>>
      /\ json' = NoJson
      /\ UNCHANGED <<pending, dbReady, job>>

Handled(fromWa, message, messageSid, evalUpstream, createOk, r) ==
  HandledWithin(MaxSessions, fromWa, message, messageSid, evalUpstream, createOk, r)

\* POST /webhook without a sender: nothing else of the request is read.
WebhookMissingFrom ==
  Handled("", "", Null, EvalFailure, TRUE,
          WebhookResult("", "", Null, DelegateFailure, EvalFailure, TRUE))

\* One POST /webhook request, handled from start to end.  The delegate's
\* outcome is an input only of a request that calls the delegate, the
\* evaluation's and the store's only of a request that closes the session.
WebhookWith(fromWa, message, messageSid) ==
  \E r0 \in {WebhookResult(fromWa, message, messageSid,
                           DelegateFailure, EvalFailure, TRUE)} :
    IF ~HasEvent(r0.trace, "delegate") /\ ~HasEvent(r0.trace, "evaluate")
    THEN Handled(fromWa, message, messageSid, EvalFailure, TRUE, r0)
    ELSE
      \E upstream \in (IF HasEvent(r0.trace, "delegate")
                       THEN DelegateOutcomes ELSE {DelegateFailure}) :
      \E r1 \in {WebhookResult(fromWa, message, messageSid,
                               upstream, EvalFailure, TRUE)} :
        IF ~HasEvent(r1.trace, "evaluate")
        THEN Handled(fromWa, message, messageSid, EvalFailure, TRUE, r1)
        ELSE
          \E evalUpstream \in TurnEvalOutcomes, createOk \in BOOLEAN :
          \E r \in {WebhookResult(fromWa, message, messageSid,
                                  upstream, evalUpstream, createOk)} :
            Handled(fromWa, message, messageSid, evalUpstream, createOk, r)

Webhook ==
  \E fromWa \in Phones, message \in Messages, messageSid \in Sids \cup {Null} :
    WebhookWith(fromWa, message, messageSid)

Next == DbConnect \/ WebhookMissingFrom \/ Webhook

Spec == Init /\ [][Next]_vars

\* The candidate who never gives a valid answer: every request carries a
\* message that is not valid answer content and a MessageSid the open session
\* has not recorded, and requests keep arriving, each handled to its end.
NonAnswerMessages == {m \in Messages : ~isValidAnswerContent(m)}

StallWebhook ==
  \E fromWa \in Phones, message \in NonAnswerMessages,
     messageSid \in Sids \cup {Null} :
    /\ LET id == FindOpenSession(normalizePhone(fromWa))
       IN  id # 0 => ~IsDuplicate(sessions[id], messageSid)
    /\ WebhookWith(fromWa, message, messageSid)

StallNext == DbConnect \/ StallWebhook

StallSpec == Init /\ [][StallNext]_vars /\ WF_vars(StallWebhook)

\* Several candidates, each of whom may apply again after a closed session:
\* the messages that open a session and answer its questions.
PairPhones == {"whatsapp:+201", "whatsapp:+202"}

PairMessages == {"ready", "I built REST APIs"}

\* One POST /webhook request of these runs: any outcome of the delegate, the
\* evaluation service out of reach, the store taking the submission.
PairWebhook ==
  \E fromWa \in PairPhones, message \in PairMessages, upstream \in DelegateOutcomes :
    \E r \in {WebhookResult(fromWa, message, Null, upstream, EvalFailure, TRUE)} :
      HandledWithin(MaxPairSessions, fromWa, message, Null, EvalFailure, TRUE, r)

PairNext == DbConnect \/ PairWebhook

\* The job of these runs has at most one question.
PairInit == Init /\ Len(job.questions) <= 1

PairSpec == PairInit /\ [][PairNext]_vars

\* finalizeAndNotify on its own: a session that has just been closed, with any
\* ledger the turns can leave, evaluated once with any upstream outcome.
ScoreTenths ==
  {-20, -5, -4, 0, 4, 5, 594, 595, 599, 600, 744, 745, 749, 750,
   844, 845, 849, 850, 1000, 1004, 1005, 1500}

Scores == {Num(t) : t \in ScoreTenths}
            \cup {NumericString(845), NumericString(1005), ScoreTrue}
            \cup {ScoreAbsent, ScoreNaN, ScorePosInf, ScoreNegInf}

EvalOutcomes ==
  {EvalFailure, EvalUnparseable}
    \cup {EvalResult(sc, d) : sc \in Scores, d \in {Null, "strong", "reject"}}

\* The ledgers of a closed session of n questions: a write pads the slots
\* below it, so every slot is an answer or a pad and the last one an answer.
Ledgers(n) ==
  UNION {{l \in [1..len -> {EmptySlot} \cup
                            {[question |-> QuestionTexts[k], answer |-> "I built REST APIs"]
                               : k \in 1..n}] :
            /\ \A k \in 1..len : l[k] = EmptySlot \/ l[k].question = QuestionTexts[k]
            /\ len > 0 => l[len] # EmptySlot}
         : len \in 0..n}

ClosedSession(n, ledger) ==
  LET skipped == {i \in 0..(n - 1) : AnswerAt(ledger, i) = ""}
      last == IF skipped = {} THEN 0
              ELSE 1 + CHOOSE i \in skipped : \A j \in skipped : j <= i
  IN  [NewSession("+201") EXCEPT
         !.currentIndex = n,
         !.answers = ledger,
         !.completedAt = "date",
         !.followUpCounts = [i \in 1..last |->
                               IF (i - 1) \in skipped THEN MAX_FOLLOW_UPS ELSE 0],
         !.needsReview = IF skipped = {} THEN <<>>
                         ELSE LET RECURSIVE Asc(_)
                                  Asc(S) == IF S = {} THEN <<>>
                                            ELSE LET m == CHOOSE x \in S : \A y \in S : x <= y
                                                 IN  <<m>> \o Asc(S \ {m})
                              IN  Asc(skipped)]

ScoreInit ==
  /\ dbReady = TRUE
  /\ \E n \in 1..MaxQuestions :
       /\ job = [questions |-> SubSeq(QuestionTexts, 1, n)]
       /\ \E ledger \in Ledgers(n) : sessions = <<ClosedSession(n, ledger)>>
  /\ submissions = <<>>
  /\ trace = <<>>
  /\ response = Null
  /\ turn = IdleTurn
  /\ delivered = {}
  /\ writes = <<>>
  /\ json = NoJson
  /\ pending = <<>>

Evaluate ==
  /\ submissions = <<>>
  /\ trace = <<>>
  /\ \E evalUpstream \in EvalOutcomes, createOk \in BOOLEAN :
       LET fin == finalizeAndNotify(1, sessions[1], evalUpstream, createOk)
       IN  /\ submissions' = fin.subs
           /\ trace' = fin.trace
           /\ turn' = [IdleTurn EXCEPT !.session = 1, !.eval = evalUpstream,
                                       !.createOk = createOk]
  /\ UNCHANGED <<pending, dbReady, job, sessions, response, delivered, writes, json>>

ScoreNext == Evaluate

ScoreSpec == ScoreInit /\ [][ScoreNext]_vars

\* ------------------------------------------- web interview (development)
\* The address POST /api/interview/start serves, and one it does not.
DevEmail == "baseelaziz1@gmail.com"

Emails == {DevEmail, "someone@example.com"}

\* { role, content }: the content as the lines the handler joins with '\n'.
Entry(role, content) == [role |-> role, content |-> content]

\* res.json({ ok, reply, done, analysis }): analysis is <<>> when the body
\* has no such key.
Json(ok, reply, done, analysis) ==
  [json |-> TRUE, ok |-> ok, reply |-> reply, done |-> done,
   analysis |-> analysis]

\* res.status(4xx / 500).json({ error })
ErrorJson == Json(FALSE, <<>>, FALSE, <<>>)

\* Session.create({ applicantPhone: `email:${email}`, currentIndex: 0,
\* answers: [], processedMessageSids: [], interviewStarted: false,
\* conversationHistory: [{ role: 'assistant', content: welcome }] })
NewWebSession ==
  [applicantPhone |-> "email:baseelaziz1@gmail.com", currentIndex |-> 0,
   answers |-> <<>>, processedMessageSids |-> <<>>, completedAt |-> Null,
   interviewStarted |-> FALSE, followUpCounts |-> <<>>, needsReview |-> <<>>,
   conversationHistory |-> <<Entry("assistant", <<WelcomeMessage>>)>>]

\* if (out) sessionDoc.conversationHistory.push({ role, content: out })
Push(doc, role, content) ==
  IF content = <<>> THEN doc
  ELSE [doc EXCEPT !.conversationHistory = Append(@, Entry(role, content))]

\* { ...sessionDoc.toObject(), from: applicantEmail || applicantPhone }
WithFrom(doc) ==
  IF doc.applicantPhone = "email:baseelaziz1@gmail.com"
  THEN [doc EXCEPT !.applicantPhone = DevEmail]
  ELSE doc

\* The ledger write of the web handler's override branch: as LedgerWrite,
\* but a ledger longer than idx gets the answer pushed at its end.
WebOverrideWrite(answers, idx, q, ans) ==
  IF Len(answers) = idx THEN Append(answers, [question |-> q, answer |-> ans])
  ELSE (IF Len(answers) < idx
        THEN answers \o [i \in 1..(idx - Len(answers)) |-> EmptySlot]
        ELSE answers)
       \o <<[question |-> q, answer |-> ans]>>

\* What one web request comes to: the session document as the handler leaves
\* it in memory, the documents it stored (one per save), the steps taken, the
\* status and JSON body of the response, the submissions created and the
\* delegate's action.
WebResult(doc, docs, steps, status, js, subs, action) ==
  [doc |-> doc, writes |-> docs, trace |-> steps, response |-> status,
   json |-> js, subs |-> subs, action |-> action]

WebAcceptUnwritten(id, doc, idx, reply, evalUpstream, createOk, action, answers) ==
  LET written == [doc EXCEPT !.currentIndex = idx + 1]
      outFinal == JoinNonEmpty(reply, FinalMessage)
      closed == Push([written EXCEPT !.completedAt = "date"], "assistant", outFinal)
      fin == finalizeAndNotify(id, WithFrom(closed), evalUpstream, createOk)
      analysis == analyzeCandidate(job.questions, closed.answers, evalUpstream)
      outNext == JoinNonEmpty(reply, QuestionPrompt(idx + 1))
      next == Push(written, "assistant", outNext)
  IN  IF IsLastQuestion(idx)
      THEN IF fin.threw
           THEN WebResult(closed, <<closed>>,
                          DelegateEvent \o SaveEvent \o fin.trace,
                          "500", ErrorJson, fin.subs, action)
           ELSE WebResult(closed, <<closed>>,
                          DelegateEvent \o SaveEvent \o fin.trace,
                          "200", Json(TRUE, outFinal, TRUE, <<analysis>>),
                          fin.subs, action)
      ELSE WebResult(next, <<next>>, DelegateEvent \o SaveEvent,
                     "200", Json(TRUE, outNext, FALSE, <<>>), <<>>, action)

\* An accepted answer in the web handler, answers being the ledger after its
\* write: the closing of the session with the evaluation in the response, or
\* the next question.
WebAccept(id, doc, idx, reply, evalUpstream, createOk, action, answers) ==
  LET written == [doc EXCEPT !.answers = answers, !.currentIndex = idx + 1]
      outFinal == JoinNonEmpty(reply, FinalMessage)
      closed == Push([written EXCEPT !.completedAt = "date"], "assistant", outFinal)
      fin == finalizeAndNotify(id, WithFrom(closed), evalUpstream, createOk)
      analysis == analyzeCandidate(job.questions, closed.answers, evalUpstream)
      outNext == JoinNonEmpty(reply, QuestionPrompt(idx + 1))
      next == Push(written, "assistant", outNext)
  IN  IF IsLastQuestion(idx)
      THEN IF fin.threw
           THEN WebResult(closed, <<closed>>,
                          DelegateEvent \o SaveEvent \o fin.trace,
                          "500", ErrorJson, fin.subs, action)
           ELSE WebResult(closed, <<closed>>,
                          DelegateEvent \o SaveEvent \o fin.trace,
                          "200", Json(TRUE, outFinal, TRUE, <<analysis>>),
                          fin.subs, action)
      ELSE WebResult(next, <<next>>, DelegateEvent \o SaveEvent,
                     "200", Json(TRUE, outNext, FALSE, <<>>), <<>>, action)

\* POST /api/interview/webhook with { sessionId, message }; sessionId 0 is a
\* request without one, an id beyond the collection one that no session has.
InterviewWebhookResult(sessionId, message, upstream, evalUpstream, createOk) ==
  IF ~dbReady \/ sessionId = 0 \/ message = ""
  THEN WebResult(NewWebSession, <<>>, <<>>, "400", ErrorJson, <<>>, Null)
  ELSE IF sessionId > Len(sessions)
  THEN WebResult(NewWebSession, <<>>, <<>>, "404", ErrorJson, <<>>, Null)
  ELSE
    LET stored == sessions[sessionId]
        doc == Push(stored, "user", <<message>>)
        idx == doc.currentIndex
        guidance == converseOnAnswer(upstream)
        action == guidance.action
        reply == sanitizeAssistantReply(guidance.assistant_reply)
        fu == IF guidance.follow_up_question # ""
              THEN sanitizeAssistantReply(guidance.follow_up_question) ELSE ""
        welcomed == Push(doc, "assistant", <<WelcomeMessage>>)
        first == IF NumQuestions > 0 THEN QuestionPrompt(0) ELSE NoQuestionsMessage
        started == Push([doc EXCEPT !.interviewStarted = TRUE], "assistant", <<first>>)
        clarified == Push(Push(doc, "assistant", JoinNonEmpty(reply, "")),
                          "assistant", <<QuestionPrompt(idx)>>)
        guided == CountFollowUp(Push(doc, "assistant", JoinNonEmpty(reply, fu)), idx)
        reasked == Push(doc, "assistant", JoinNonEmpty(reply, QuestionPrompt(idx)))
        followed == CountFollowUp(
                      IF action = "clarify"
                      THEN Push(Push(doc, "assistant", JoinNonEmpty(reply, fu)),
                                "assistant", <<QuestionPrompt(idx)>>)
                      ELSE Push(doc, "assistant", JoinNonEmpty(reply, fu)),
                      idx)
        prompted == Push(doc, "assistant", <<QuestionPrompt(doc.currentIndex)>>)
        closed == [doc EXCEPT !.completedAt = "date"]
        fin == finalizeAndNotify(sessionId, WithFrom(closed), evalUpstream, createOk)
        analysis == analyzeCandidate(job.questions, closed.answers, evalUpstream)
        thanked == Push(closed, "assistant", <<FinalMessage>>)
    IN
    IF ~doc.interviewStarted THEN
      IF ~isStartMessage(message)
      THEN WebResult(welcomed, <<welcomed>>, SaveEvent, "200",
                     Json(TRUE, <<WelcomeMessage>>, FALSE, <<>>), <<>>, Null)
      ELSE WebResult(started, <<started>>, SaveEvent, "200",
                     Json(TRUE, <<first>>, FALSE, <<>>), <<>>, Null)
    ELSE IF idx < NumQuestions THEN
      IF isConfirmationOnly(message)
      THEN WebResult(doc, <<doc>>, SaveEvent, "200",
                     Json(TRUE, <<>>, FALSE, <<>>), <<>>, Null)
      ELSE IF isClarification(message)
      THEN WebResult(clarified, <<clarified>>, DelegateEvent \o SaveEvent, "200",
                     Json(TRUE, IF reply # "" THEN <<reply>>
                                ELSE <<QuestionPrompt(idx)>>, FALSE, <<>>),
                     <<>>, action)
      ELSE IF isUserQuestion(message) /\ ~isProbablyAnswer(message)
      THEN WebResult(guided, <<guided>>, DelegateEvent \o SaveEvent, "200",
                     Json(TRUE, JoinNonEmpty(reply, fu), FALSE, <<>>),
                     <<>>, action)
      ELSE IF DefaultPath(action, message) = "reask"
      THEN WebResult(reasked, <<reasked>>, DelegateEvent \o SaveEvent, "200",
                     Json(TRUE, JoinNonEmpty(reply, QuestionPrompt(idx)), FALSE, <<>>),
                     <<>>, action)
      ELSE IF DefaultPath(action, message) = "accept"
      THEN WebAccept(sessionId, doc, idx, reply, evalUpstream, createOk, action,
                     IF action = "answer"
                     THEN LedgerWrite(doc.answers, idx, QuestionAt(idx), message)
                     ELSE WebOverrideWrite(doc.answers, idx, QuestionAt(idx), message))
      ELSE WebResult(followed, <<followed>>, DelegateEvent \o SaveEvent, "200",
                     Json(TRUE, JoinNonEmpty(reply, fu), FALSE, <<>>),
                     <<>>, action)
    ELSE IF doc.currentIndex < NumQuestions
    THEN WebResult(prompted, <<prompted>>, SaveEvent, "200",
                   Json(TRUE, <<QuestionPrompt(doc.currentIndex)>>, FALSE, <<>>),
                   <<>>, Null)
    ELSE IF doc.completedAt = Null THEN
      IF fin.threw
      THEN WebResult(closed, <<closed>>, SaveEvent \o fin.trace,
                     "500", ErrorJson, fin.subs, Null)
      ELSE WebResult(thanked, <<closed, thanked>>,
                     SaveEvent \o fin.trace \o SaveEvent, "200",
                     Json(TRUE, <<FinalMessage>>, TRUE, <<analysis>>),
                     fin.subs, Null)
    ELSE WebResult(doc, <<>>, <<>>, "200",
                   Json(TRUE, <<FinalMessage>>, TRUE, <<>>), <<>>, Null)

\* POST /api/interview/start: a session for the development address, with
\* the database up; nothing for any other address.
InterviewStart ==
  \E email \in Emails :
    LET creates == email = DevEmail /\ dbReady
    IN  /\ creates => Len(sessions) < MaxSessions
        /\ sessions' = IF creates THEN Append(sessions, NewWebSession) ELSE sessions
        /\ writes' = IF creates THEN <<NewWebSession>> ELSE <<>>
        /\ trace' = IF creates THEN <<Ev("create", <<>>)>> ELSE <<>>
        /\ response' = "200"
        /\ json' = Json(email = DevEmail, <<>>, FALSE, <<>>)
        /\ turn' = [IdleTurn EXCEPT
                      !.session = IF creates THEN Len(sessions) + 1 ELSE 0]
        /\ UNCHANGED <<pending, dbReady, job, submissions, delivered>>

\* The state a web request leaves behind, r being what the request came to.
\* The session the last save stored is the one the collection holds.
WebHandled(sessionId, message, evalUpstream, createOk, r) ==
  /\ \A k \in 1..Len(r.writes) :
       Len(r.writes[k].conversationHistory) <= MaxTranscript
  /\ sessions' = IF r.writes = <<>> THEN sessions
                 ELSE [sessions EXCEPT ![sessionId] = r.writes[Len(r.writes)]]
  /\ submissions' = submissions \o r.subs
  /\ trace' = r.trace
  /\ response' = r.response
  /\ json' = r.json
  /\ writes' = r.writes
  /\ turn' = [IdleTurn EXCEPT
                !.msg = message,
                !.session = IF r.response \in {"400", "404"} THEN 0 ELSE sessionId,
                !.action = r.action,
                !.eval = evalUpstream,
                !.createOk = createOk]
  /\ UNCHANGED <<pending, dbReady, job, delivered>>

\* One POST /api/interview/webhook request, handled from start to end, its
\* inputs drawn as those of a POST /webhook request are.
InterviewWebhookWith(sessionId, message) ==
  \E r0 \in {InterviewWebhookResult(sessionId, message,
                                    DelegateFailure, EvalFailure, TRUE)} :
    IF ~HasEvent(r0.trace, "delegate") /\ ~HasEvent(r0.trace, "evaluate")
    THEN WebHandled(sessionId, message, EvalFailure, TRUE, r0)
    ELSE
      \E upstream \in (IF HasEvent(r0.trace, "delegate")
                       THEN DelegateOutcomes ELSE {DelegateFailure}) :
      \E r1 \in {InterviewWebhookResult(sessionId, message,
                                        upstream, EvalFailure, TRUE)} :
        IF ~HasEvent(r1.trace, "evaluate")
        THEN WebHandled(sessionId, message, EvalFailure, TRUE, r1)
        ELSE
          \E evalUpstream \in TurnEvalOutcomes, createOk \in BOOLEAN :
          \E r \in {InterviewWebhookResult(sessionId, message,
                                           upstream, evalUpstream, createOk)} :
            WebHandled(sessionId, message, evalUpstream, createOk, r)

\* req.body.message of the web requests, after trim().
WebMessages == {"", "ok", "ready", "explain", "why?", "I built REST APIs"}

InterviewWebhook ==
  \E sessionId \in 0..(MaxSessions + 1), message \in WebMessages :
    InterviewWebhookWith(sessionId, message)

WebNext == DbConnect \/ InterviewStart \/ InterviewWebhook

\* The web interview, every request handled to its end before the next.
WebSpec == Init /\ [][WebNext]_vars

\* ------------------------------------------------ the two webhooks, side by side
\* A candidate on WhatsApp and a candidate on the web, both with a started
\* interview at its first question, are sent the same messages; the delegate
\* answers both alike.
TwinMessages == {"", "ok", "explain", "why?", "that's all", "I built REST APIs"}

\* The web session after POST /api/interview/start and the readiness message.
StartedWebSession ==
  Push(Push([NewWebSession EXCEPT !.interviewStarted = TRUE], "user", <<"ready">>),
       "assistant", <<QuestionPrompt(0)>>)

TwinInit ==
  /\ dbReady = TRUE
  /\ job \in {[questions |-> SubSeq(QuestionTexts, 1, n)] : n \in 1..MaxQuestions}
  /\ sessions = <<NewSession("+201"), StartedWebSession>>
  /\ submissions = <<>>
  /\ trace = <<>>
  /\ response = Null
  /\ turn = IdleTurn
  /\ delivered = {}
  /\ writes = <<>>
  /\ json = NoJson
  /\ pending = <<>>

\* The state the two requests leave behind: a being what POST /webhook came
\* to against session 1, w what POST /api/interview/webhook came to against
\* session 2.  trace holds the steps of the first, then those of the second.
TwinHandled(message, evalUpstream, createOk, a, w) ==
  /\ \A k \in 1..Len(w.writes) :
       Len(w.writes[k].conversationHistory) <= MaxTranscript
  /\ sessions' = <<IF a.persist = "save" THEN a.doc ELSE sessions[1],
                   IF w.writes = <<>> THEN sessions[2]
                   ELSE w.writes[Len(w.writes)]>>
  /\ submissions' = submissions \o a.subs \o w.subs
  /\ trace' = a.trace \o w.trace
  /\ response' = w.response
  /\ json' = w.json
  /\ writes' = w.writes
  /\ turn' = [IdleTurn EXCEPT
                !.from = "whatsapp:+201",
                !.msg = message,
                !.session = 1,
                !.action = a.action,
                !.eval = evalUpstream,
                !.createOk = createOk]
  /\ UNCHANGED <<pending, dbReady, job, delivered>>

\* One message to each of the two, while the WhatsApp session is open and
\* the two sessions have not come apart.
TwinTurn ==
  /\ sessions[1].completedAt = Null
  /\ sessions[1].currentIndex = sessions[2].currentIndex
  /\ sessions[1].answers = sessions[2].answers
  /\ sessions[1].followUpCounts = sessions[2].followUpCounts
  /\ \E message \in TwinMessages, upstream \in DelegateOutcomes :
       \E a0 \in {InSession(1, message, Null, upstream, EvalFailure, TRUE)},
          w0 \in {InterviewWebhookResult(2, message, upstream, EvalFailure, TRUE)} :
         IF ~HasEvent(a0.trace, "evaluate") /\ ~HasEvent(w0.trace, "evaluate")
         THEN TwinHandled(message, EvalFailure, TRUE, a0, w0)
         ELSE \E createOk \in BOOLEAN :
                TwinHandled(message, EvalFailure, createOk,
                            InSession(1, message, Null, upstream, EvalFailure, createOk),
                            InterviewWebhookResult(2, message, upstream,
                                                   EvalFailure, createOk))

TwinNext == TwinTurn

TwinSpec == TwinInit /\ [][TwinNext]_vars

\* ------------------------------------------------ requests that overlap
\* POST /webhook awaits between its read of the session (findOne) and its
\* save: another request for the same session can read in between.  A
\* request is taken in two steps here, its read with everything it computes
\* from the document it read, and its save with everything after it.
RaceMessages == {"why?", "I built REST APIs"}

RaceOutcomes ==
  {DelegateFailure} \cup
  {Upstream("Thanks.", a, "Which framework?") : a \in {"answer", "ask_again", "clarify"}}

RaceInit ==
  /\ dbReady = TRUE
  /\ job \in {[questions |-> SubSeq(QuestionTexts, 1, n)] : n \in 1..MaxQuestions}
  /\ sessions = <<NewSession("+201")>>
  /\ submissions = <<>>
  /\ trace = <<>>
  /\ response = Null
  /\ turn = IdleTurn
  /\ delivered = {}
  /\ writes = <<>>
  /\ json = NoJson
  /\ pending = <<>>

\* The paths the request changed, set on the stored document.
Merged(stored, base, doc) ==
  [f \in DOMAIN doc |-> IF doc[f] # base[f] THEN doc[f] ELSE stored[f]]

SaveOutcomesAddingIndex(stored, base, doc) ==
  IF stored = base
  THEN {[threw |-> FALSE, doc |-> doc]}
  ELSE {[threw |-> FALSE,
         doc |-> [Merged(stored, base, doc) EXCEPT
                    !.currentIndex = stored.currentIndex
                                       + (doc.currentIndex - base.currentIndex)]],
        [threw |-> TRUE, doc |-> stored]}

\* await sessionDoc.save() of a document that was read when the collection
\* held base and holds stored now.  When another request has saved in
\* between, the write either goes through, setting the paths this request
\* changed, or is refused on the document's version and save() throws.
SaveOutcomes(stored, base, doc) ==
  IF stored = base
  THEN {[threw |-> FALSE, doc |-> doc]}
  ELSE {[threw |-> FALSE, doc |-> Merged(stored, base, doc)],
        [threw |-> TRUE, doc |-> stored]}

\* The steps of a request before its first save.
UpToSave(steps) ==
  LET saves == {k \in 1..Len(steps) : steps[k].kind = "save"}
  IN  IF saves = {} THEN steps
      ELSE SubSeq(steps, 1, (CHOOSE k \in saves : \A l \in saves : k <= l) - 1)

\* A request reads the open session and computes its turn from what it
\* read.  Requests in flight have all read the stored document: a read
\* waits while a request that read an older one is still to save.
RaceRead ==
  /\ Len(pending) < MaxInFlight
  /\ \A k \in 1..Len(pending) : pending[k].base = sessions[pending[k].session]
  /\ \E message \in RaceMessages, messageSid \in Sids \cup {Null},
        upstream \in RaceOutcomes :
       LET id == FindOpenSession(normalizePhone("whatsapp:+201"))
       IN  /\ id # 0
           /\ pending' = Append(pending,
                 [session |-> id, msg |-> message, sid |-> messageSid,
                  base |-> sessions[id],
                  r |-> WebhookResult("whatsapp:+201", message, messageSid,
                                      upstream, EvalFailure, TRUE)])
  /\ UNCHANGED <<dbReady, job, sessions, submissions, trace, response, turn,
                 delivered, writes, json>>

\* A request in flight saves and runs to its end.
RaceFinish ==
  \E k \in 1..Len(pending) :
    LET p == pending[k]
        stored == sessions[p.session]
    IN  \E out \in (IF p.r.persist = "save"
                    THEN SaveOutcomes(stored, p.base, p.r.doc)
                    ELSE {[threw |-> FALSE, doc |-> stored]}) :
          /\ sessions' = [sessions EXCEPT ![p.session] = out.doc]
          /\ submissions' = IF out.threw THEN submissions
                            ELSE submissions \o p.r.subs
          /\ trace' = IF out.threw THEN UpToSave(p.r.trace) ELSE p.r.trace
          /\ response' = IF out.threw THEN "none" ELSE p.r.response
          /\ turn' = [from |-> "whatsapp:+201", msg |-> p.msg, sid |-> p.sid,
                      session |-> p.session, action |-> p.r.action,
                      eval |-> EvalFailure, createOk |-> TRUE,
                      redelivery |-> <<p.session, p.sid>> \in delivered]
          /\ delivered' = IF p.sid # Null
                          THEN delivered \cup {<<p.session, p.sid>>}
                          ELSE delivered
          /\ writes' = IF p.r.persist = "save" /\ ~out.threw
                       THEN <<out.doc>> ELSE <<>>
          /\ json' = NoJson
          /\ pending' = SubSeq(pending, 1, k - 1)
                          \o SubSeq(pending, k + 1, Len(pending))
          /\ UNCHANGED <<dbReady, job>>

RaceNext == RaceRead \/ RaceFinish

RaceSpec == RaceInit /\ [][RaceNext]_vars

\* ------------------------------------------------------------- properties
\* The open session the request of this step met, in the state before it.
Met(id) ==
  /\ turn'.from # ""
  /\ id # 0
  /\ id = FindOpenSession(normalizePhone(turn'.from))

\* The delivery id is among those the stored session has recorded.
Recorded(id, sid) ==
  /\ sid # Null
  /\ \E k \in 1..Len(sessions[id].processedMessageSids) :
       sessions[id].processedMessageSids[k] = sid

SendsNothing(steps) == \A k \in 1..Len(steps) : steps[k].kind # "send"

\* This step handles again the request the step before it handled: the same
\* sender, body and MessageSid, against the same session.
Redelivers ==
  /\ turn'.redelivery
  /\ turn'.sid # Null
  /\ turn'.sid = turn.sid
  /\ turn'.msg = turn.msg
  /\ turn'.from = turn.from
  /\ turn'.session = turn.session

\* C1 (idempotence): a request delivered again with the same MessageSid, for
\* the same session, changes no session and no submission and sends nothing,
\* whatever kind of turn its first delivery was.
C1_RedeliveryChangesNothing ==
  [][Redelivers =>
       /\ sessions' = sessions
       /\ submissions' = submissions
       /\ SendsNothing(trace')]_vars

\* C2 (duplicate short-circuit): a request whose MessageSid the open session
\* has already recorded is answered OK at once: no classification, no delegate
\* or evaluation call, no message sent, no save, and the session and the
\* submissions are left as they were.
C2_DuplicateShortCircuit ==
  [][\A id \in 1..Len(sessions) :
       (Met(id) /\ Recorded(id, turn'.sid)) =>
         /\ trace' = <<>>
         /\ response' = "OK"
         /\ turn'.action = Null
         /\ sessions' = sessions
         /\ submissions' = submissions]_vars

\* A recorded MessageSid came again and was answered without any effect.
C2_Witness ==
  /\ turn.session # 0
  /\ turn.redelivery
  /\ Recorded(turn.session, turn.sid)
  /\ sessions[turn.session].completedAt = Null
  /\ trace = <<>>
  /\ response = "OK"

\* This step handles a reply to the current question of open session id that
\* is not a duplicate, not a confirmation and not a clarification request, is
\* not valid answer content, and that the delegate resolves as ask_again or
\* guide.
AmbiguousReply(id) ==
  /\ Met(id)
  /\ ~Recorded(id, turn'.sid)
  /\ sessions[id].currentIndex < NumQuestions
  /\ ~isConfirmationOnly(turn'.msg)
  /\ ~isClarification(turn'.msg)
  /\ ~isValidAnswerContent(turn'.msg)
  /\ turn'.action \in {"ask_again", "guide"}

FollowUpsSoFar(id) ==
  LET i == sessions[id].currentIndex
  IN  IF i + 1 <= Len(sessions[id].followUpCounts)
      THEN sessions[id].followUpCounts[i + 1] ELSE 0

InNeedsReview(doc, i) == \E k \in 1..Len(doc.needsReview) : doc.needsReview[k] = i

\* C3 as stated (bounded escalation): the index stays at i through the first
\* MAX_FOLLOW_UPS ambiguous replies to question i, and the reply after them
\* advances it to i + 1 and puts i in the needs-review set.
C3_AdvanceAfterCeilingTurns ==
  [][\A id \in 1..Len(sessions) :
       AmbiguousReply(id) =>
         IF FollowUpsSoFar(id) < MAX_FOLLOW_UPS
         THEN sessions'[id].currentIndex = sessions[id].currentIndex
         ELSE /\ sessions'[id].currentIndex = sessions[id].currentIndex + 1
              /\ InNeedsReview(sessions'[id], sessions[id].currentIndex)]_vars

\* C3 (bounded escalation, as the handler counts): the index stays at i
\* through the first MAX_FOLLOW_UPS - 1 ambiguous replies to question i; the
\* MAX_FOLLOW_UPS-th advances it to i + 1 and puts i in the needs-review set;
\* none of them writes the ledger.
C3_AdvanceOnCeilingTurn ==
  [][\A id \in 1..Len(sessions) :
       AmbiguousReply(id) =>
         /\ sessions'[id].answers = sessions[id].answers
         /\ IF FollowUpsSoFar(id) + 1 < MAX_FOLLOW_UPS
            THEN /\ sessions'[id].currentIndex = sessions[id].currentIndex
                 /\ ~InNeedsReview(sessions'[id], sessions[id].currentIndex)
            ELSE /\ sessions'[id].currentIndex = sessions[id].currentIndex + 1
                 /\ InNeedsReview(sessions'[id], sessions[id].currentIndex)]_vars

\* The MAX_FOLLOW_UPS-th ambiguous reply has just forced the index past a
\* question that has no answer in the ledger.
C3_Witness ==
  /\ turn.session # 0
  /\ turn.action \in {"ask_again", "guide"}
  /\ ~isValidAnswerContent(turn.msg)
  /\ LET doc == sessions[turn.session]
         i == doc.currentIndex - 1
     IN  /\ i >= 0
         /\ InNeedsReview(doc, i)
         /\ Len(doc.followUpCounts) >= i + 1
         /\ doc.followUpCounts[i + 1] = MAX_FOLLOW_UPS
         /\ AnswerAt(doc.answers, i) = ""

IsOpen(id) == id <= Len(sessions) /\ sessions[id].completedAt = Null

IsCompleted(id) == id <= Len(sessions) /\ sessions[id].completedAt # Null

\* C4 as stated (no stalling): an open session whose candidate keeps sending
\* non-duplicate messages that are not valid answers is completed after
\* finitely many turns, whatever the messages and the delegate's actions.
C4_NoStalling == \A id \in 1..MaxSessions : IsOpen(id) ~> IsCompleted(id)

\* The last turn met session id and was one the handler does not count: a
\* confirmation-only message, a clarification request, or a default-path
\* message the delegate tagged "answer" that is not valid answer content.
UncountedTurn(id) ==
  /\ turn.session = id
  /\ \/ isConfirmationOnly(turn.msg)
     \/ isClarification(turn.msg)
     \/ ~isUserQuestion(turn.msg) /\ turn.action = "answer"

\* C4 (no stalling by counted turns): an open session whose candidate keeps
\* sending non-duplicate messages that are not valid answers is completed
\* unless uncounted turns (confirmations, clarification requests, non-valid
\* content tagged "answer") keep occurring: a run of counted turns alone always
\* ends in completion.
C4_CountedTurnsComplete ==
  \A id \in 1..MaxSessions : IsOpen(id) ~> (IsCompleted(id) \/ UncountedTurn(id))

\* A session was driven to completion by escalation alone: every question
\* skipped for review, nothing in the ledger.
C4_Witness ==
  \E id \in 1..Len(sessions) :
    /\ IsCompleted(id)
    /\ NumQuestions >= 1
    /\ sessions[id].answers = <<>>
    /\ \A i \in 0..(NumQuestions - 1) : InNeedsReview(sessions[id], i)

\* C5 (ledger monotonicity): a ledger slot that holds an answer holds the
\* same question and answer after every later turn; sessions and slots are
\* never removed.
C5_LedgerMonotone ==
  [][/\ Len(sessions') >= Len(sessions)
     /\ \A id \in 1..Len(sessions) :
          \A k \in 1..Len(sessions[id].answers) :
            sessions[id].answers[k].answer # "" =>
              /\ Len(sessions'[id].answers) >= k
              /\ sessions'[id].answers[k] = sessions[id].answers[k]]_vars

\* A second answer was written while the first slot held one.
C5_Witness ==
  \E id \in 1..Len(sessions) :
    /\ Len(sessions[id].answers) >= 2
    /\ sessions[id].answers[1].answer # ""
    /\ sessions[id].answers[2].answer # ""

\* Slot k of session id is written by this step.
Written(id, k) ==
  \/ id > Len(sessions)
  \/ k > Len(sessions[id].answers)
  \/ sessions'[id].answers[k] # sessions[id].answers[k]

\* C6 (non-answers are never written): whatever action the delegate returns,
\* a ledger slot a turn writes is a pad or holds the turn's message, and that
\* message is valid answer content: not a confirmation, not a meta statement,
\* not a clarification request, not a candidate question.
C6_OnlyValidAnswersWritten ==
  [][\A id \in 1..Len(sessions') :
       \A k \in 1..Len(sessions'[id].answers) :
         Written(id, k) =>
           \/ sessions'[id].answers[k] = [question |-> "", answer |-> ""]
           \/ /\ turn'.session = id
              /\ sessions'[id].answers[k].answer = turn'.msg
              /\ isValidAnswerContent(turn'.msg)
              /\ ~isConfirmationOnly(turn'.msg)
              /\ ~isMetaNonAnswer(turn'.msg)
              /\ ~isClarification(turn'.msg)
              /\ ~isUserQuestion(turn'.msg)]_vars

\* The delegate tagged a meta statement "answer" and the ledger does not
\* hold it.
C6_Witness ==
  /\ turn.session # 0
  /\ turn.action = "answer"
  /\ isMetaNonAnswer(turn.msg)
  /\ HasEvent(trace, "send")
  /\ \A k \in 1..Len(sessions[turn.session].answers) :
       sessions[turn.session].answers[k].answer # turn.msg

\* The ledger the submission was made from lacks an answer to some question.
MissingAnswer(sub) ==
  \E i \in 0..(NumQuestions - 1) :
    i + 1 > Len(sub.answers) \/ sub.answers[i + 1].answer = ""

\* C7 (missing-answer downgrade): a submission made from a ledger with an
\* absent or empty slot for some question is never decided "strong" or
\* "recommended", whatever score the evaluation reported.
C7_MissingAnswerDowngrade ==
  \A j \in 1..Len(submissions) :
    MissingAnswer(submissions[j]) =>
      submissions[j].aiDecision \notin {"strong", "recommended"}

\* The evaluation reported 90 for a ledger with a missing answer, and the
\* submission of this turn is decided "review".
C7_Witness ==
  /\ Len(submissions) >= 1
  /\ HasEvent(trace, "submit")
  /\ turn.eval.ok
  /\ turn.eval.score = Num(900)
  /\ LET sub == submissions[Len(submissions)]
     IN  /\ MissingAnswer(sub)
         /\ sub.aiScore = 90
         /\ sub.aiDecision = "review"

\* max(0, min(100, round(t / 10))) for a score of t tenths.
ClampedRound(t) ==
  LET r == (t + 5) \div 10
  IN  IF r < 0 THEN 0 ELSE IF r > 100 THEN 100 ELSE r

\* The submission the evaluation of this run produced, if the store took it.
Evaluated(j) == j \in 1..Len(submissions) /\ submissions[j].session = turn.session

\* C8 as stated (score clamp): the persisted score is
\* max(0, min(100, round(s))) for every numeric score s the upstream reports
\* (a number, spelled as a string or not, in the range of a double or beyond
\* it); a non-numeric or absent score yields 0.
C8_ScoreClampNumericElseZero ==
  \A j \in 1..Len(submissions) :
    Evaluated(j) /\ turn.eval.ok =>
      submissions[j].aiScore =
        CASE turn.eval.score.kind \in {"num", "numstr"} ->
               ClampedRound(turn.eval.score.tenths)
          [] turn.eval.score.kind = "inf" -> 100
          [] OTHER -> 0

\* C8 (score clamp): the persisted score is an integer in 0..100, equal to
\* max(0, min(100, round(n))) where n is what Number() makes of the reported
\* score (a numeric string its number, true 1, an absent score 0) when n is
\* finite, and 0 when n is NaN or +-Infinity.
C8_ScoreClampOfNumber ==
  \A j \in 1..Len(submissions) :
    /\ submissions[j].aiScore \in 0..100
    /\ Evaluated(j) /\ turn.eval.ok =>
         submissions[j].aiScore =
           CASE turn.eval.score.kind \in {"num", "numstr"} ->
                  ClampedRound(turn.eval.score.tenths)
             [] turn.eval.score.kind = "true" -> 1
             [] OTHER -> 0

\* A reported score above the range was persisted as 100.
C8_Witness ==
  \E j \in 1..Len(submissions) :
    /\ Evaluated(j)
    /\ turn.eval.ok
    /\ turn.eval.score = Num(1005)
    /\ submissions[j].aiScore = 100

\* The decision the thresholds give a score, downgraded to "review" when an
\* answer is missing.
ThresholdDecision(score, missing) ==
  LET d == IF score >= 85 THEN "strong"
           ELSE IF score >= 75 THEN "recommended"
           ELSE IF score >= 60 THEN "review"
           ELSE "weak"
  IN  IF missing /\ d \in {"strong", "recommended"} THEN "review" ELSE d

\* C9 as stated (server-authoritative decision): the decision of every
\* persisted submission is the thresholds' decision for its persisted score,
\* modified only by the missing-answer downgrade.
C9_DecisionFromScoreAlone ==
  \A j \in 1..Len(submissions) :
    submissions[j].aiDecision =
      ThresholdDecision(submissions[j].aiScore, MissingAnswer(submissions[j]))

\* C9 (server-authoritative decision): when the evaluation request succeeds
\* the decision is the thresholds' decision for the persisted score, modified
\* only by the missing-answer downgrade, whatever label the upstream
\* proposed; when the request fails the submission has score 0 and decision
\* "review".
C9_DecisionFromScoreOrFallback ==
  \A j \in 1..Len(submissions) :
    Evaluated(j) =>
      IF turn.eval.ok
      THEN submissions[j].aiDecision =
             ThresholdDecision(submissions[j].aiScore, MissingAnswer(submissions[j]))
      ELSE submissions[j].aiScore = 0 /\ submissions[j].aiDecision = "review"

\* The upstream proposed "strong" for a complete ledger and a score of 59.9;
\* the submission is decided "review" on its rounded score of 60.
C9_Witness ==
  \E j \in 1..Len(submissions) :
    /\ Evaluated(j)
    /\ turn.eval.ok
    /\ turn.eval.decision = "strong"
    /\ turn.eval.score = Num(599)
    /\ ~MissingAnswer(submissions[j])
    /\ submissions[j].aiDecision = "review"

\* The submissions made from session id.
SubmissionsOf(id) == {j \in 1..Len(submissions) : submissions[j].session = id}

\* C10 (exactly one submission per completed session): a completed session
\* has exactly one submission and an open session has none.
C10_OneSubmissionPerCompletedSession ==
  \A id \in 1..Len(sessions) :
    Cardinality(SubmissionsOf(id)) =
      IF sessions[id].completedAt # Null THEN 1 ELSE 0

\* The last request called finalizeAndNotify.
Finalized == turn.session # 0 /\ HasEvent(trace, "evaluate")

\* The last request sent the closing message.
ClosingSent ==
  \E k \in 1..Len(trace) :
    /\ trace[k].kind = "send"
    /\ \E l \in 1..Len(trace[k].body) :
         trace[k].body[l] = "Thank you. Your answers were received."

\* A submission of the session of the last request holds this analysis.
PersistedWith(score, strengths, weaknesses, decision, summary) ==
  \E j \in SubmissionsOf(turn.session) :
    /\ submissions[j].aiScore = score
    /\ submissions[j].aiStrengths = strengths
    /\ submissions[j].aiWeaknesses = weaknesses
    /\ submissions[j].aiDecision = decision
    /\ submissions[j].aiSummary = summary

C12_FinalizationNeverFailsTurn ==
  Finalized => (ClosingSent /\ response = "OK")

\* C13 (scenario D, stalling on the last question), turn by turn: the
\* ambiguous reply to the last question that reaches the ceiling forces the
\* index to the question count and flags the question, the session still
\* open; the next message that is not a duplicate then closes the session at
\* that index and, the store taking it, leaves exactly one submission, decided
\* "review" or "weak".
C13_StallOnLastQuestion ==
  [][\A id \in 1..Len(sessions) :
       /\ ( /\ AmbiguousReply(id)
            /\ sessions[id].currentIndex = NumQuestions - 1
            /\ FollowUpsSoFar(id) + 1 >= MAX_FOLLOW_UPS )
          => /\ sessions'[id].currentIndex = NumQuestions
             /\ InNeedsReview(sessions'[id], NumQuestions - 1)
             /\ sessions'[id].completedAt = Null
             /\ submissions' = submissions
       /\ ( /\ Met(id)
            /\ ~Recorded(id, turn'.sid)
            /\ NumQuestions >= 1
            /\ sessions[id].currentIndex = NumQuestions
            /\ InNeedsReview(sessions[id], NumQuestions - 1)
            /\ turn'.createOk )
          => /\ sessions'[id].completedAt # Null
             /\ sessions'[id].currentIndex = NumQuestions
             /\ InNeedsReview(sessions'[id], NumQuestions - 1)
             /\ \E j \in 1..Len(submissions') :
                  /\ submissions'[j].session = id
                  /\ submissions'[j].aiDecision \in {"review", "weak"}
                  /\ \A i \in 1..Len(submissions') :
                       submissions'[i].session = id => i = j]_vars

\* The message after the forced advance past the last question has closed
\* the session: one submission, decided "review" or "weak".
C13_Witness ==
  /\ Finalized
  /\ turn.action = Null
  /\ NumQuestions >= 1
  /\ LET doc == sessions[turn.session]
     IN  /\ doc.completedAt # Null
         /\ doc.currentIndex = NumQuestions
         /\ InNeedsReview(doc, NumQuestions - 1)
         /\ Len(doc.followUpCounts) = NumQuestions
         /\ doc.followUpCounts[NumQuestions] = MAX_FOLLOW_UPS
  /\ Cardinality(SubmissionsOf(turn.session)) = 1
  /\ \A j \in SubmissionsOf(turn.session) :
       submissions[j].aiDecision \in {"review", "weak"}

\* The request of this step comes from a sender without an open session.
MetNone == turn'.from # "" /\ FindOpenSession(normalizePhone(turn'.from)) = 0

\* C14 (not started, no readiness signal): a message that is not a
\* readiness signal, from a sender without an open session, has one effect:
\* the welcome message is sent.  No session is created and no delegate or
\* evaluation call is made, however many such messages arrive.
C14_WelcomeOnly ==
  [][(MetNone /\ ~isStartMessage(turn'.msg)) =>
       /\ sessions' = sessions
       /\ submissions' = submissions
       /\ trace' = <<[kind |-> "send",
                      body |-> <<"Hi, I am Azzam. If you are ready, let me know.">>]>>
       /\ response' = "OK"]_vars

\* With the database up and no session, a message that is no readiness
\* signal was answered with the welcome message alone.
C14_Witness ==
  /\ dbReady
  /\ sessions = <<>>
  /\ turn.from # ""
  /\ turn.session = 0
  /\ ~isStartMessage(turn.msg)
  /\ Len(trace) = 1
  /\ trace[1].kind = "send"

\* The session with the highest id is new: index 0, nothing in the ledger,
\* no counters, not completed.
Fresh(doc) ==
  /\ doc.currentIndex = 0
  /\ doc.answers = <<>>
  /\ doc.followUpCounts = <<>>
  /\ doc.needsReview = <<>>
  /\ doc.completedAt = Null

\* The first question, or the notice that the job has none, is what the
\* request sent.
FirstQuestionSent(steps) ==
  \E k \in 1..Len(steps) :
    /\ steps[k].kind = "send"
    /\ steps[k].body = IF NumQuestions > 0 THEN <<"Question 1: Q1">>
                       ELSE <<"No questions are configured.">>
    /\ \A l \in 1..Len(steps) : steps[l].kind = "send" => l = k

C16_ConfirmationNoOp ==
  [][\A id \in 1..Len(sessions) :
       ( /\ Met(id)
         /\ ~Recorded(id, turn'.sid)
         /\ sessions[id].currentIndex < NumQuestions
         /\ isConfirmationOnly(turn'.msg) )
       => /\ SendsNothing(trace')
          /\ ~HasEvent(trace', "delegate")
          /\ ~HasEvent(trace', "evaluate")
          /\ sessions'[id].currentIndex = sessions[id].currentIndex
          /\ sessions'[id].answers = sessions[id].answers
          /\ sessions'[id].followUpCounts = sessions[id].followUpCounts
          /\ sessions'[id].needsReview = sessions[id].needsReview
          /\ sessions'[id].completedAt = sessions[id].completedAt
          /\ submissions' = submissions]_vars

\* A confirmation met an awaited question and was only saved.
C16_Witness ==
  /\ turn.session # 0
  /\ ~turn.redelivery
  /\ isConfirmationOnly(turn.msg)
  /\ sessions[turn.session].currentIndex < NumQuestions
  /\ sessions[turn.session].completedAt = Null
  /\ trace = <<[kind |-> "save", body |-> <<>>]>>

\* Every slot of the ledger that holds an answer holds the text of the job's
\* question of the same position.
Aligned(answers) ==
  /\ Len(answers) <= Len(job.questions)
  /\ \A k \in 1..Len(answers) :
       answers[k].answer # "" => answers[k].question = job.questions[k]

\* C17 (ledger alignment and full ledger): every slot k that holds an answer
\* holds the text of question k and the message that was accepted while the
\* index was k; a submission carries the ledger of its session; so the
\* session closed with N valid answers, the store taking the submission, has
\* a submission of N entries, entry k answering question k.
C17_LedgerAligned ==
  [][/\ \A id \in 1..Len(sessions') :
          /\ Aligned(sessions'[id].answers)
          /\ \A k \in 1..Len(sessions'[id].answers) :
               (Written(id, k) /\ sessions'[id].answers[k].answer # "") =>
                 /\ id <= Len(sessions)
                 /\ k = sessions[id].currentIndex + 1
                 /\ sessions'[id].answers[k].answer = turn'.msg
     /\ \A j \in 1..Len(submissions') :
          /\ Aligned(submissions'[j].answers)
          /\ submissions'[j].answers = sessions'[submissions'[j].session].answers
     /\ \A id \in 1..Len(sessions') :
          ( /\ turn'.session = id
            /\ HasEvent(trace', "evaluate")
            /\ turn'.createOk
            /\ Len(sessions'[id].answers) = Len(job.questions)
            /\ \A k \in 1..Len(job.questions) : sessions'[id].answers[k].answer # "" )
          => \E j \in 1..Len(submissions') :
               /\ submissions'[j].session = id
               /\ Len(submissions'[j].answers) = Len(job.questions)
               /\ \A k \in 1..Len(job.questions) :
                    /\ submissions'[j].answers[k].question = job.questions[k]
                    /\ submissions'[j].answers[k].answer # ""]_vars

\* Both questions of a job were answered and the submission holds both
\* entries, each under its own question.
C17_Witness ==
  /\ Len(job.questions) = 2
  /\ \E j \in 1..Len(submissions) :
       /\ Len(submissions[j].answers) = 2
       /\ \A k \in 1..2 :
            /\ submissions[j].answers[k].question = job.questions[k]
            /\ submissions[j].answers[k].answer # ""

\* C18 (ledger length): the ledger of a session is never longer than
\* currentIndex + 1.
C18_LedgerLength ==
  \A id \in 1..Len(sessions) :
    Len(sessions[id].answers) <= sessions[id].currentIndex + 1

\* An answer was written below the index: after a skipped first question the
\* ledger is as long as the index.
C18_Witness ==
  \E id \in 1..Len(sessions) :
    /\ sessions[id].currentIndex = 2
    /\ Len(sessions[id].answers) = 2
    /\ sessions[id].answers[1].answer = ""
    /\ InNeedsReview(sessions[id], 0)

\* C19 (index monotonicity): no turn lowers a session's index or raises it
\* by more than one, and the index is always between 0 and the question
\* count.
C19_IndexMonotone ==
  [][/\ \A id \in 1..Len(sessions) :
          /\ id <= Len(sessions')
          /\ sessions'[id].currentIndex >= sessions[id].currentIndex
          /\ sessions'[id].currentIndex <= sessions[id].currentIndex + 1
     /\ \A id \in 1..Len(sessions') :
          /\ sessions'[id].currentIndex >= 0
          /\ sessions'[id].currentIndex <= Len(job.questions)]_vars

\* Two forced advances took an open session from index 0 to the question
\* count, one step at a time.
C19_Witness ==
  /\ turn.session # 0
  /\ Len(job.questions) = 2
  /\ LET doc == sessions[turn.session]
     IN  /\ doc.currentIndex = 2
         /\ doc.completedAt = Null
         /\ doc.answers = <<>>
         /\ InNeedsReview(doc, 0)
         /\ InNeedsReview(doc, 1)

\* C20 (single closure): a session that has its completion timestamp is met
\* by no later request and changed by no later step, so the timestamp is set
\* at most once; and a session that has it has its index at the question
\* count.
C20_SingleClosure ==
  [][/\ \A id \in 1..Len(sessions) :
          sessions[id].completedAt # Null =>
            /\ turn'.session # id
            /\ sessions'[id] = sessions[id]
     /\ \A id \in 1..Len(sessions') :
          sessions'[id].completedAt # Null =>
            sessions'[id].currentIndex = Len(job.questions)]_vars

\* The candidate of a closed session wrote again: the request met no
\* session, and the closed one stands at the question count.
C20_Witness ==
  /\ turn.from # ""
  /\ turn.session = 0
  /\ \E id \in 1..Len(sessions) :
       /\ sessions[id].applicantPhone = normalizePhone(turn.from)
       /\ sessions[id].completedAt # Null
       /\ sessions[id].currentIndex = Len(job.questions)
       /\ Len(job.questions) >= 1

\* C21 as stated (completed sessions are frozen): a session that holds its
\* completion timestamp is changed by no later request, WhatsApp or web, in
\* any field; and once a request has stored a session with the timestamp,
\* whatever it stores afterwards is that same document.
C21_CompletedFrozen ==
  [][/\ \A id \in 1..Len(sessions) :
          sessions[id].completedAt # Null =>
            /\ id <= Len(sessions')
            /\ sessions'[id] = sessions[id]
     /\ \A k \in 1..Len(writes') :
          \A l \in (k + 1)..Len(writes') :
            writes'[k].completedAt # Null => writes'[l] = writes'[k]]_vars

\* C22 (at most one open session): after any sequence of POST /webhook
\* requests handled one at a time, no two sessions without a completion
\* timestamp belong to the same candidate; a request creates at most one
\* session, and only for a candidate all of whose sessions are closed.
C22_OneOpenSession ==
  [][/\ \A a \in 1..Len(sessions') :
          \A b \in 1..Len(sessions') :
            ( /\ sessions'[a].applicantPhone = sessions'[b].applicantPhone
              /\ sessions'[a].completedAt = Null
              /\ sessions'[b].completedAt = Null ) => a = b
     /\ Len(sessions') > Len(sessions) =>
          /\ Len(sessions') = Len(sessions) + 1
          /\ sessions'[Len(sessions')].applicantPhone = normalizePhone(turn'.from)
          /\ \A id \in 1..Len(sessions) :
               sessions[id].applicantPhone = normalizePhone(turn'.from) =>
                 sessions[id].completedAt # Null]_vars

\* A candidate whose first session was closed has a second, open one, beside
\* the open session of another candidate.
C22_Witness ==
  \E a \in 1..Len(sessions) :
    \E b \in 1..Len(sessions) :
      \E c \in 1..Len(sessions) :
        /\ a < b
        /\ sessions[a].applicantPhone = sessions[b].applicantPhone
        /\ sessions[a].completedAt # Null
        /\ sessions[b].completedAt = Null
        /\ sessions[c].applicantPhone # sessions[a].applicantPhone
        /\ sessions[c].completedAt = Null

\* The request of this step meets open session id while one of its questions
\* is awaited, and is not a duplicate.
Awaiting(id) ==
  /\ Met(id)
  /\ ~Recorded(id, turn'.sid)
  /\ sessions[id].interviewStarted
  /\ sessions[id].currentIndex < NumQuestions

IsSend(e) == e.kind = "send"

\* The messages a request sent, in order.
Sent(steps) == SelectSeq(steps, IsSend)

\* How many steps of the given kind a request took.
Calls(steps, kind) == Cardinality({k \in 1..Len(steps) : steps[k].kind = kind})

\* A delegate outcome the handler resolves to the given action.
ResolvesTo(upstream, action) == converseOnAnswer(upstream).action = action

ReplyOf(upstream) ==
  sanitizeAssistantReply(converseOnAnswer(upstream).assistant_reply)

FollowUpOf(upstream) ==
  sanitizeAssistantReply(converseOnAnswer(upstream).follow_up_question)

\* The message body is the prompt of one of the job's questions.
IsPrompt(body) == \E i \in 0..(NumQuestions - 1) : body = <<QuestionPrompt(i)>>

\* C23 as stated (commit before reply): in a request that changes the
\* session it met, a save precedes every message the request sends.
C23_CommitBeforeReply ==
  [][\A id \in 1..Len(sessions) :
       (Met(id) /\ sessions'[id] # sessions[id]) =>
         \A k \in 1..Len(trace') :
           trace'[k].kind = "send" =>
             \E l \in 1..(k - 1) : trace'[l].kind = "save"]_vars

\* C24 (missing sender identity): a request without From is answered 400;
\* it meets no session, changes no session and no submission, sends nothing
\* and calls neither the delegate nor the evaluation.
C24_MissingFromRejected ==
  [][(turn'.from = "" /\ dbReady' = dbReady) =>
       /\ response' = "400"
       /\ trace' = <<>>
       /\ turn'.session = 0
       /\ turn'.action = Null
       /\ sessions' = sessions
       /\ submissions' = submissions]_vars

\* A request without From was rejected while a session was open.
C24_Witness ==
  /\ dbReady
  /\ turn.from = ""
  /\ response = "400"
  /\ trace = <<>>
  /\ \E id \in 1..Len(sessions) : sessions[id].completedAt = Null

\* The texts of an evaluation: its summary, strengths and weaknesses.
EvaluationTexts ==
  {FailedAnalysis.summary} \cup
  UNION {{e.summary} \cup SeqRange(e.strengths) \cup SeqRange(e.weaknesses) :
           e \in TurnEvalOutcomes}

\* C25 as stated (evaluation confidentiality): no WhatsApp message and no
\* web response carries the evaluation: no response body has an analysis,
\* and no line sent or returned is a text of the evaluation.
C25_EvaluationConfidential ==
  /\ json.analysis = <<>>
  /\ \A l \in 1..Len(json.reply) : json.reply[l] \notin (EvaluationTexts \ {""})
  /\ \A k \in 1..Len(trace) :
       trace[k].kind = "send" =>
         \A l \in 1..Len(trace[k].body) :
           trace[k].body[l] \notin (EvaluationTexts \ {""})

\* C26 (clarification request branch): while question i is awaited, a
\* clarification request that is not a duplicate makes one delegate call and
\* sends the delegate's reply, if it has one, and then the prompt of question
\* i, once; the index, the ledger, the follow-up counters and the
\* needs-review set are left as they were.
C26_ClarificationBranch ==
  [][\A id \in 1..Len(sessions) :
       ( /\ Awaiting(id)
         /\ ~isConfirmationOnly(turn'.msg)
         /\ turn'.msg \in ClarificationMatches )
       => LET i == sessions[id].currentIndex
          IN  /\ Calls(trace', "delegate") = 1
              /\ \E upstream \in DelegateOutcomes :
                   /\ ResolvesTo(upstream, turn'.action)
                   /\ trace' = <<[kind |-> "delegate", body |-> <<>>]>>
                        \o (IF ReplyOf(upstream) = "" THEN <<>>
                            ELSE <<[kind |-> "send", body |-> <<ReplyOf(upstream)>>]>>)
                        \o <<[kind |-> "send", body |-> <<QuestionPrompt(i)>>]>>
              /\ sessions'[id].currentIndex = i
              /\ sessions'[id].answers = sessions[id].answers
              /\ sessions'[id].followUpCounts = sessions[id].followUpCounts
              /\ sessions'[id].needsReview = sessions[id].needsReview
              /\ sessions'[id].completedAt = Null
              /\ submissions' = submissions]_vars

\* A clarification request was answered with the delegate's reply and the
\* prompt of the awaited question.
C26_Witness ==
  /\ turn.session # 0
  /\ turn.msg \in ClarificationMatches
  /\ sessions[turn.session].completedAt = Null
  /\ sessions[turn.session].currentIndex = 1
  /\ Len(Sent(trace)) = 2
  /\ Sent(trace)[2].body = <<QuestionPrompt(1)>>
  /\ ~IsPrompt(Sent(trace)[1].body)

\* The message is none of those the handler takes before the default path.
OnDefaultPath(message) ==
  /\ ~isConfirmationOnly(message)
  /\ ~isClarification(message)
  /\ ~isUserQuestion(message)

\* C27 as stated (delegate action clarify): on the default path a turn the
\* delegate resolves as clarify sends the prompt of question i once, leaves
\* the index and the follow-up counter of i as they were and does not put i
\* in the needs-review set.
C27_ClarifyLikeClarificationBranch ==
  [][\A id \in 1..Len(sessions) :
       ( /\ Awaiting(id)
         /\ OnDefaultPath(turn'.msg)
         /\ turn'.action = "clarify" )
       => LET i == sessions[id].currentIndex
          IN  /\ Cardinality({k \in 1..Len(trace') :
                    trace'[k] = [kind |-> "send", body |-> <<QuestionPrompt(i)>>]}) = 1
              /\ sessions'[id].currentIndex = i
              /\ CountAt(sessions'[id].followUpCounts, i)
                   = CountAt(sessions[id].followUpCounts, i)
              /\ ~InNeedsReview(sessions'[id], i)]_vars

\* C28 (user-question branch): while question i is awaited, a message that
\* is a candidate question (not a confirmation, not a clarification request,
\* not a duplicate) makes one delegate call and sends the delegate's reply
\* and follow-up text in one message, never a question prompt; the follow-up
\* counter of i goes up by one, the ledger is left as it was whatever the
\* delegate's action, and the index moves, by one, exactly when the counter
\* reaches the ceiling.
C28_UserQuestionBranch ==
  [][\A id \in 1..Len(sessions) :
       ( /\ Awaiting(id)
         /\ ~isConfirmationOnly(turn'.msg)
         /\ ~isClarification(turn'.msg)
         /\ isUserQuestion(turn'.msg) )
       => LET i == sessions[id].currentIndex
              count == CountAt(sessions[id].followUpCounts, i) + 1
          IN  /\ Calls(trace', "delegate") = 1
              /\ \A k \in 1..Len(trace') :
                   trace'[k].kind = "send" =>
                     \A l \in 1..Len(trace'[k].body) :
                       ~IsPrompt(<<trace'[k].body[l]>>)
              /\ \E upstream \in DelegateOutcomes :
                   /\ ResolvesTo(upstream, turn'.action)
                   /\ Sent(trace') =
                        IF ReplyOf(upstream) = "" /\ FollowUpOf(upstream) = ""
                        THEN <<>>
                        ELSE <<[kind |-> "send",
                                body |-> JoinNonEmpty(ReplyOf(upstream),
                                                      FollowUpOf(upstream))]>>
              /\ CountAt(sessions'[id].followUpCounts, i) = count
              /\ \A j \in 0..(NumQuestions - 1) :
                   j # i => CountAt(sessions'[id].followUpCounts, j)
                              = CountAt(sessions[id].followUpCounts, j)
              /\ sessions'[id].answers = sessions[id].answers
              /\ sessions'[id].completedAt = Null
              /\ submissions' = submissions
              /\ sessions'[id].currentIndex
                   = IF count >= MAX_FOLLOW_UPS THEN i + 1 ELSE i]_vars

\* A candidate question that the delegate tagged "answer" was counted, not
\* written: the counter of the awaited question stands at one, the ledger is
\* empty.
C28_Witness ==
  /\ turn.session # 0
  /\ isUserQuestion(turn.msg)
  /\ turn.action = "answer"
  /\ LET doc == sessions[turn.session]
     IN  /\ doc.completedAt = Null
         /\ doc.currentIndex = 0
         /\ doc.answers = <<>>
         /\ CountAt(doc.followUpCounts, 0) = 1
  /\ Calls(trace, "delegate") = 1
  /\ Len(Sent(trace)) = 1

\* C29 (substantive-answer override): on the default path, a message that is
\* valid answer content and that the delegate resolves as ask_again or guide
\* is handled as the same message tagged "answer" is: it is written to slot
\* i, which was empty, the index goes to i + 1, the session is closed exactly
\* when i was the last question, the follow-up counters and the needs-review
\* set are left as they were.
C29_SubstantiveOverride ==
  [][\A id \in 1..Len(sessions) :
       ( /\ Awaiting(id)
         /\ OnDefaultPath(turn'.msg)
         /\ turn'.action \in {"ask_again", "guide"}
         /\ isValidAnswerContent(turn'.msg) )
       => LET i == sessions[id].currentIndex
          IN  /\ AnswerAt(sessions[id].answers, i) = ""
              /\ Len(sessions'[id].answers) = i + 1
              /\ sessions'[id].answers[i + 1]
                   = [question |-> job.questions[i + 1], answer |-> turn'.msg]
              /\ \A k \in 1..Len(sessions[id].answers) :
                   sessions'[id].answers[k] = sessions[id].answers[k]
              /\ sessions'[id].currentIndex = i + 1
              /\ (sessions'[id].completedAt # Null) <=> (i = NumQuestions - 1)
              /\ sessions'[id].followUpCounts = sessions[id].followUpCounts
              /\ sessions'[id].needsReview = sessions[id].needsReview
              /\ ~InNeedsReview(sessions'[id], i)
              /\ \E upstream \in DelegateOutcomes :
                   /\ ResolvesTo(upstream, turn'.action)
                   /\ LET tagged == Upstream(upstream.assistant_reply, "answer",
                                             upstream.follow_up_question)
                          r == InSession(id, turn'.msg, turn'.sid, tagged,
                                         turn'.eval, turn'.createOk)
                      IN  /\ sessions'[id] = r.doc
                          /\ trace' = r.trace
                          /\ response' = r.response
                          /\ submissions' = submissions \o r.subs]_vars

\* A valid answer that the delegate resolved as guide closed the session of
\* a one-question job: the ledger holds it, no counter was touched.
C29_Witness ==
  /\ turn.session # 0
  /\ turn.action = "guide"
  /\ isValidAnswerContent(turn.msg)
  /\ NumQuestions = 1
  /\ LET doc == sessions[turn.session]
     IN  /\ doc.completedAt # Null
         /\ doc.currentIndex = 1
         /\ doc.answers = <<[question |-> job.questions[1], answer |-> turn.msg]>>
         /\ doc.followUpCounts = <<>>
         /\ doc.needsReview = <<>>

\* C30 (invalid content tagged as answer): on the default path, a message
\* that is not valid answer content and that the delegate tags "answer" gets
\* the delegate's reply, if any, and the prompt of question i again; the
\* index, the ledger, the follow-up counters and the needs-review set are
\* left as they were.
C30_InvalidAnswerReask ==
  [][\A id \in 1..Len(sessions) :
       ( /\ Awaiting(id)
         /\ OnDefaultPath(turn'.msg)
         /\ turn'.action = "answer"
         /\ ~isValidAnswerContent(turn'.msg) )
       => LET i == sessions[id].currentIndex
          IN  /\ Len(Sent(trace')) >= 1
              /\ Sent(trace')[Len(Sent(trace'))].body = <<QuestionPrompt(i)>>
              /\ Cardinality({k \in 1..Len(trace') : IsPrompt(trace'[k].body)}) = 1
              /\ sessions'[id].currentIndex = i
              /\ sessions'[id].answers = sessions[id].answers
              /\ sessions'[id].followUpCounts = sessions[id].followUpCounts
              /\ sessions'[id].needsReview = sessions[id].needsReview
              /\ sessions'[id].completedAt = Null
              /\ submissions' = submissions]_vars

\* A meta statement tagged "answer" met the second question after the first
\* was answered: the second question was asked again, nothing was counted.
C30_Witness ==
  /\ turn.session # 0
  /\ turn.action = "answer"
  /\ isMetaNonAnswer(turn.msg)
  /\ LET doc == sessions[turn.session]
     IN  /\ doc.completedAt = Null
         /\ doc.currentIndex = 1
         /\ Len(doc.answers) = 1
         /\ doc.followUpCounts = <<>>
         /\ doc.needsReview = <<>>
  /\ Len(Sent(trace)) >= 1
  /\ Sent(trace)[Len(Sent(trace))].body = <<QuestionPrompt(1)>>

\* The step is one in which the delegate's call failed: what the request
\* left behind is what the handler comes to on a failed call.
DelegateFailed(id) ==
  LET r == InSession(id, turn'.msg, turn'.sid, DelegateFailure,
                     turn'.eval, turn'.createOk)
  IN  /\ HasEvent(trace', "delegate")
      /\ trace' = r.trace
      /\ turn'.action = r.action
      /\ sessions'[id] = IF r.persist = "save" THEN r.doc ELSE sessions[id]

\* C31 (delegate failure is absorbed): a turn whose delegate call fails is
\* answered OK with the action ask_again, and is handled as the turn of the
\* same message with an explicit ask_again and no text is: a message that is
\* neither a clarification request nor valid answer content is counted
\* against question i, and on the ceiling i is flagged and the index moves
\* to i + 1.
C31_DelegateFailureAbsorbed ==
  [][\A id \in 1..Len(sessions) :
       ( /\ Awaiting(id)
         /\ DelegateFailed(id) )
       => LET i == sessions[id].currentIndex
              count == CountAt(sessions[id].followUpCounts, i) + 1
              asked == InSession(id, turn'.msg, turn'.sid,
                                 Upstream(Null, "ask_again", Null),
                                 turn'.eval, turn'.createOk)
          IN  /\ turn'.action = "ask_again"
              /\ response' = "OK"
              /\ trace' = asked.trace
              /\ sessions'[id] = IF asked.persist = "save" THEN asked.doc
                                 ELSE sessions[id]
              /\ submissions' = submissions \o asked.subs
              /\ ( /\ turn'.msg \notin ClarificationMatches
                   /\ ~isValidAnswerContent(turn'.msg) )
                 => /\ CountAt(sessions'[id].followUpCounts, i) = count
                    /\ sessions'[id].currentIndex
                         = IF count >= MAX_FOLLOW_UPS THEN i + 1 ELSE i
                    /\ InNeedsReview(sessions'[id], i) <=> count >= MAX_FOLLOW_UPS
                    /\ sessions'[id].answers = sessions[id].answers]_vars

\* A turn whose delegate call failed was the second counted turn of question
\* 0: nothing was sent, the counter stands at the ceiling, question 0 is
\* flagged and the index moved on.
C31_Witness ==
  /\ turn.session # 0
  /\ turn.action = "ask_again"
  /\ trace = <<[kind |-> "delegate", body |-> <<>>], [kind |-> "save", body |-> <<>>]>>
  /\ LET doc == sessions[turn.session]
     IN  /\ CountAt(doc.followUpCounts, 0) = MAX_FOLLOW_UPS
         /\ doc.currentIndex = 1
         /\ InNeedsReview(doc, 0)
         /\ doc.answers = <<>>

\* The action tags the handler knows.
KnownActions == {"answer", "clarify", "ask_again", "guide"}

\* C32 as stated (unrecognized action tags): a turn whose delegate result
\* carries an action that is none of answer, clarify, ask_again, guide leaves
\* the session, the submissions and the messages sent as the same result with
\* the action ask_again would.
C32_UnknownTagAsAskAgain ==
  [][\A id \in 1..Len(sessions) :
       ( /\ Awaiting(id)
         /\ turn'.action # Null
         /\ turn'.action \notin KnownActions )
       => \E upstream \in DelegateOutcomes :
            /\ upstream.ok
            /\ upstream.action = turn'.action
            /\ LET asked == InSession(id, turn'.msg, turn'.sid,
                                      Upstream(upstream.assistant_reply, "ask_again",
                                               upstream.follow_up_question),
                                      turn'.eval, turn'.createOk)
               IN  /\ sessions'[id] = IF asked.persist = "save" THEN asked.doc
                                      ELSE sessions[id]
                   /\ Sent(trace') = Sent(asked.trace)
                   /\ submissions' = submissions \o asked.subs]_vars

\* C33 (accepted answer progression): a valid answer accepted at index i is
\* written to slot i and the index goes to i + 1.  When i is not the last
\* index the session stays open, the acknowledgement (if the delegate gave
\* one) and then the prompt of question i + 1 are sent, and nothing is
\* evaluated; when i is the last index the session is completed, the
\* evaluation runs once, and one message, the acknowledgement joined with the
\* closing text, is sent, with no question prompt.
C33_AcceptedAnswerProgression ==
  [][\A id \in 1..Len(sessions) :
       ( /\ Awaiting(id)
         /\ OnDefaultPath(turn'.msg)
         /\ isValidAnswerContent(turn'.msg)
         /\ turn'.action \in {"answer", "ask_again", "guide"} )
       => LET i == sessions[id].currentIndex
          IN  /\ Len(sessions'[id].answers) = i + 1
              /\ sessions'[id].answers[i + 1].answer = turn'.msg
              /\ sessions'[id].currentIndex = i + 1
              /\ \E upstream \in DelegateOutcomes :
                   /\ ResolvesTo(upstream, turn'.action)
                   /\ IF i # NumQuestions - 1
                      THEN /\ sessions'[id].completedAt = Null
                           /\ Sent(trace') =
                                (IF ReplyOf(upstream) = "" THEN <<>>
                                 ELSE <<[kind |-> "send", body |-> <<ReplyOf(upstream)>>]>>)
                                \o <<[kind |-> "send", body |-> <<QuestionPrompt(i + 1)>>]>>
                           /\ Calls(trace', "evaluate") = 0
                           /\ submissions' = submissions
                      ELSE /\ sessions'[id].completedAt # Null
                           /\ Calls(trace', "evaluate") = 1
                           /\ Sent(trace') =
                                <<[kind |-> "send",
                                   body |-> JoinNonEmpty(ReplyOf(upstream), FinalMessage)]>>
                           /\ \A k \in 1..Len(trace') : ~IsPrompt(trace'[k].body)
                           /\ Len(submissions')
                                = Len(submissions) + (IF turn'.createOk THEN 1 ELSE 0)]_vars

\* The second of two questions was answered: both slots hold answers, the
\* session is completed, the evaluation ran once and the one message sent is
\* the acknowledgement joined with the closing text.
C33_Witness ==
  /\ turn.session # 0
  /\ turn.action = "answer"
  /\ NumQuestions = 2
  /\ LET doc == sessions[turn.session]
     IN  /\ doc.completedAt # Null
         /\ doc.currentIndex = 2
         /\ Len(doc.answers) = 2
         /\ doc.answers[1].answer # ""
         /\ doc.answers[2].answer = turn.msg
  /\ Calls(trace, "evaluate") = 1
  /\ Sent(trace) = <<[kind |-> "send", body |-> <<"Thanks.", FinalMessage>>]>>

\* The request sent the given line, alone or within a longer message.
SentLine(steps, line) ==
  \E k \in 1..Len(steps) :
    /\ steps[k].kind = "send"
    /\ \E l \in 1..Len(steps[k].body) : steps[k].body[l] = line

\* C34 as stated (no follow-up at the ceiling): once the follow-up counter of
\* question i stands at the ceiling, the turn that brought it there included,
\* the prompt of question i is not sent again, and the turn that met the
\* session at i sends no follow-up question of the delegate.
C34_NoFollowUpAtCeiling ==
  [][\A id \in 1..Len(sessions) :
       Met(id) =>
         \A i \in 0..(NumQuestions - 1) :
           CountAt(sessions'[id].followUpCounts, i) >= MAX_FOLLOW_UPS =>
             /\ ~SentLine(trace', QuestionPrompt(i))
             /\ sessions[id].currentIndex = i =>
                  \A f \in FollowUpQuestions \ {Null} : ~SentLine(trace', f)]_vars

\* C37 (follow-up counter bound): the follow-up counter of every question
\* of every session lies between 0 and MAX_FOLLOW_UPS, and a turn leaves
\* every counter as it was except, at most, the counter of the question the
\* session was at, which it raises by exactly one.
C37_FollowUpCounterBound ==
  /\ [](\A id \in 1..Len(sessions) :
          /\ Len(sessions[id].followUpCounts) <= NumQuestions
          /\ \A j \in 0..(NumQuestions - 1) :
               /\ CountAt(sessions[id].followUpCounts, j) >= 0
               /\ CountAt(sessions[id].followUpCounts, j) <= MAX_FOLLOW_UPS)
  /\ [][\A id \in 1..Len(sessions) :
          \A j \in 0..(NumQuestions - 1) :
            LET before == CountAt(sessions[id].followUpCounts, j)
                after == CountAt(sessions'[id].followUpCounts, j)
            IN  \/ after = before
                \/ /\ after = before + 1
                   /\ j = sessions[id].currentIndex]_vars

\* The first question was given up at the ceiling and the second has been
\* followed up once.
C37_Witness ==
  \E id \in 1..Len(sessions) :
    /\ sessions[id].followUpCounts = <<MAX_FOLLOW_UPS, 1>>
    /\ sessions[id].currentIndex = 1
    /\ sessions[id].completedAt = Null

\* C38 (needs-review flags): the needs-review list of every session has no
\* index twice and only indices below the session's current index, the
\* ledger slot of a flagged index holds no answer, and a turn removes nothing
\* from the list.
C38_NeedsReviewFlags ==
  /\ [](\A id \in 1..Len(sessions) :
          LET doc == sessions[id]
          IN  \A k \in 1..Len(doc.needsReview) :
                /\ \A l \in 1..Len(doc.needsReview) :
                     doc.needsReview[l] = doc.needsReview[k] => l = k
                /\ doc.needsReview[k] >= 0
                /\ doc.needsReview[k] < doc.currentIndex
                /\ AnswerAt(doc.answers, doc.needsReview[k]) = "")
  /\ [][\A id \in 1..Len(sessions) :
          /\ Len(sessions'[id].needsReview) >= Len(sessions[id].needsReview)
          /\ \A k \in 1..Len(sessions[id].needsReview) :
               sessions'[id].needsReview[k] = sessions[id].needsReview[k]]_vars

\* The first question was given up and flagged, the second was answered:
\* slot 0 of the ledger is the padding, slot 1 the answer.
C38_Witness ==
  \E id \in 1..Len(sessions) :
    /\ sessions[id].needsReview = <<0>>
    /\ sessions[id].currentIndex = 2
    /\ Len(sessions[id].answers) = 2
    /\ sessions[id].answers[1] = [question |-> "", answer |-> ""]
    /\ sessions[id].answers[2].answer # ""

\* C39 as stated (processed ids are recorded): with the database connected,
\* a request that carries a MessageSid the session has not recorded, and
\* that creates a session or meets an open one, leaves the MessageSid in the
\* stored processedMessageSids of that session.
C39_ProcessedIdsRecorded ==
  [][( /\ dbReady
       /\ turn'.sid # Null
       /\ turn'.session # 0
       /\ turn'.session <= Len(sessions) => ~Recorded(turn'.session, turn'.sid) )
     => \E k \in 1..Len(sessions'[turn'.session].processedMessageSids) :
          sessions'[turn'.session].processedMessageSids[k] = turn'.sid]_vars

\* The request handled last gave up question k - 1 of session id: it called
\* the delegate and saved, k - 1 is flagged, nothing is counted or written
\* for k, and it did not send the prompt of question k.  The session has
\* only now come to k, so no request has sent that prompt.
ForcedAdvanceUnprompted(id) ==
  /\ turn.session = id
  /\ HasEvent(trace, "delegate")
  /\ HasEvent(trace, "save")
  /\ LET doc == sessions[id]
         k == doc.currentIndex
     IN  /\ k >= 1
         /\ InNeedsReview(doc, k - 1)
         /\ CountAt(doc.followUpCounts, k) = 0
         /\ Len(doc.answers) < k
         /\ ~SentLine(trace, QuestionPrompt(k))

\* C40 as stated (question asked before answered), in the case the claim
\* singles out: a message is not taken to the delegate as a potential answer
\* to question k when the request before it force-advanced the session to k
\* and the prompt of question k has not been sent.
C40_AskedBeforeAnswered ==
  [][\A id \in 1..Len(sessions) :
       ( /\ Awaiting(id)
         /\ HasEvent(trace', "delegate") )
       => ~ForcedAdvanceUnprompted(id)]_vars

\* The fields of a session the two webhooks are compared on.
FlowFields(doc) ==
  [currentIndex |-> doc.currentIndex, answers |-> doc.answers,
   followUpCounts |-> doc.followUpCounts, needsReview |-> doc.needsReview,
   completedAt |-> doc.completedAt]

\* The WhatsApp session and the web session are started, await the same
\* question and agree on the compared fields.
TwinsAwaiting ==
  /\ sessions[1].interviewStarted
  /\ sessions[2].interviewStarted
  /\ sessions[1].currentIndex < NumQuestions
  /\ FlowFields(sessions[1]) = FlowFields(sessions[2])

\* C36 as stated (the web webhook reuses the WhatsApp flow): from sessions
\* that agree on index, ledger, follow-up counters, needs-review list and
\* completion, the same message with the same delegate outcome takes POST
\* /webhook and POST /api/interview/webhook to sessions that agree again,
\* and either both run the evaluation or neither does.
C36_WebReusesWhatsAppFlow ==
  [][TwinsAwaiting =>
       /\ FlowFields(sessions'[1]) = FlowFields(sessions'[2])
       /\ Calls(trace', "evaluate") \in {0, 2}]_vars

\* C36, amended: the same for every message that is not empty.
C36_WebReusesWhatsAppFlowNonEmpty ==
  [][(TwinsAwaiting /\ turn'.msg # "") =>
       /\ FlowFields(sessions'[1]) = FlowFields(sessions'[2])
       /\ Calls(trace', "evaluate") \in {0, 2}]_vars

\* Both candidates gave up the first question at the ceiling and answered
\* the second: the two sessions are completed with the same ledger, and the
\* evaluation ran for each.
C36_Witness ==
  /\ Len(sessions) = 2
  /\ sessions[2].applicantPhone = "email:baseelaziz1@gmail.com"
  /\ FlowFields(sessions[1]) = FlowFields(sessions[2])
  /\ sessions[1].completedAt # Null
  /\ sessions[1].currentIndex = 2
  /\ sessions[1].needsReview = <<0>>
  /\ AnswerAt(sessions[1].answers, 1) = turn.msg
  /\ turn.msg # ""
  /\ Calls(trace, "evaluate") = 2

\* C35 as stated (same-session race), for the interleaving it names: when
\* the same message is delivered twice and the second request reads the
\* session before the first has saved, the second request's save leaves
\* currentIndex two above the state both read, or one of the follow-up
\* counters two above it.
C35_RaceDoubleAdvances ==
  [][( /\ Len(pending) = 1
       /\ pending' = <<>>
       /\ pending[1].r.persist = "save"
       /\ sessions[pending[1].session] # pending[1].base
       /\ turn.session = pending[1].session
       /\ turn.msg = pending[1].msg
       /\ turn.sid = pending[1].sid
       /\ turn.action = pending[1].r.action )
     => LET base == pending[1].base
            after == sessions'[pending[1].session]
        IN  \/ after.currentIndex = base.currentIndex + 2
            \/ \E j \in 0..(NumQuestions - 1) :
                 CountAt(after.followUpCounts, j)
                   = CountAt(base.followUpCounts, j) + 2]_vars

\* C35, amended: while a request that read the session is still to save,
\* whatever the other requests store leaves currentIndex at most one above
\* the state it read and every follow-up counter at most one above it, and
\* so does its own save.
C35_RaceAdvancesAtMostOnce ==
  [][\A k \in 1..Len(pending) :
       LET base == pending[k].base
           after == sessions'[pending[k].session]
       IN  /\ after.currentIndex <= base.currentIndex + 1
           /\ \A j \in 0..(NumQuestions - 1) :
                CountAt(after.followUpCounts, j)
                  <= CountAt(base.followUpCounts, j) + 1]_vars

\* The same delivery was handled twice in full: the second request, which
\* read before the first saved, called the delegate and saved as well, and
\* the session stands one question further with one answer.
C35_Witness ==
  /\ pending = <<>>
  /\ turn.redelivery
  /\ turn.sid # Null
  /\ HasEvent(trace, "delegate")
  /\ HasEvent(trace, "save")
  /\ response = "OK"
  /\ writes # <<>>
  /\ sessions[turn.session].currentIndex = 1
  /\ Len(sessions[turn.session].answers) = 1
  /\ sessions[turn.session].processedMessageSids = <<turn.sid>>

====
